---------------------------- MODULE Spec2Model ----------------------------
(***************************************************************************)
(* State-machine model of the five key -> value containers of the library: *)
(*   BinarySearchTree          (src/src/bst.rs)                            *)
(*   RedBlackTree              (src/src/red_black_tree.rs)                 *)
(*   HashMap                   (src/src/lib.rs)                            *)
(*   OpenAddressingHashTable   (src/src/open_addressing.rs)                *)
(*   SkipList                  (src/src/skip_list.rs)                      *)
(* The containers are independent; each has its own variables, its own     *)
(* initial condition and its own specification.  Keys are Rust Strings     *)
(* compared lexicographically: they are modelled by integers ordered by <. *)
(* An Option<T> is modelled by a sequence of length 0 (None) or 1 (Some).  *)
(***************************************************************************)
EXTENDS Integers, Sequences, FiniteSets, TLC

VARIABLES
    bst_root,      \* BinarySearchTree.root : Option<Box<Node>>
    bst_size,      \* BinarySearchTree.size
    bst_max_depth  \* BinarySearchTree.metrics.max_depth

VARIABLES
    rb_root,          \* RedBlackTree.root : Option<Box<Node>>
    rb_size,          \* RedBlackTree.size
    rb_tree_height,   \* RedBlackTree.metrics.tree_height
    rb_balance_ratio, \* RedBlackTree.metrics.balance_ratio (0.0 or 1.0)
    rb_rebalance_count, \* RedBlackTree.metrics.rebalance_count
    rb_rotation_count,  \* RedBlackTree.metrics.rotation_count
    rb_color_fix_count, \* RedBlackTree.metrics.color_fix_count
    rb_average_depth,   \* RedBlackTree.metrics.average_depth
    rb_pc,            \* "idle", or "delete_loop" inside delete_recursive's loop
    rb_del,           \* locals of the delete call in progress
    rb_model          \* history: the abstract map the calls so far describe

VARIABLES
    hm_hash,                \* HashMap::hash_key as a function of the key
    hm_buckets,             \* HashMap.buckets : Vec<Vec<(String, u32)>>
    hm_size,                \* HashMap.size
    hm_total_insertions,    \* HashMap.metrics.total_insertions
    hm_total_collisions,    \* HashMap.metrics.total_collisions
    hm_max_chain_length,    \* HashMap.metrics.max_chain_length
    hm_average_load_factor, \* HashMap.metrics.average_load_factor, <<num, den>>
    hm_model                \* history: the abstract map the calls so far describe

VARIABLES
    oa_hash,              \* OpenAddressingHashTable::hash_key as a function of the key
    oa_table,             \* table : Vec<Option<Entry>>, indexed from 0
    oa_size,              \* size
    oa_capacity,          \* capacity
    oa_total_probes,      \* metrics.total_probes
    oa_max_probe_length,  \* metrics.max_probe_length
    oa_load_factor,       \* metrics.load_factor, <<num, den>>
    oa_clustering_factor, \* metrics.clustering_factor, <<num, den>>
    oa_tombstone_count,   \* metrics.tombstone_count
    oa_panic,             \* "none", or the operation that panicked
    oa_model              \* history: the abstract map the calls so far describe

VARIABLES
    sl_nodes,           \* the Nodes alive, by address; address 0 is SkipList.head
    sl_level,           \* SkipList.level
    sl_size,            \* SkipList.size
    sl_average_level,   \* SkipList.metrics.average_level, <<num, den>>
    sl_max_level,       \* SkipList.metrics.max_level
    sl_insertion_cost,  \* SkipList.metrics.insertion_cost
    sl_model            \* history: the abstract map the calls so far describe

bstVars == <<bst_root, bst_size, bst_max_depth>>
rbVars == <<rb_root, rb_size, rb_tree_height, rb_balance_ratio,
            rb_rebalance_count, rb_rotation_count, rb_color_fix_count,
            rb_average_depth, rb_pc, rb_del, rb_model>>

\* the metrics of RedBlackTree that only new writes
rbUnwritten == <<rb_rotation_count, rb_color_fix_count, rb_average_depth>>

hmVars == <<hm_hash, hm_buckets, hm_size, hm_total_insertions,
            hm_total_collisions, hm_max_chain_length, hm_average_load_factor,
            hm_model>>

oaVars == <<oa_hash, oa_table, oa_size, oa_capacity, oa_total_probes,
            oa_max_probe_length,
            oa_load_factor, oa_clustering_factor, oa_tombstone_count, oa_panic,
            oa_model>>

slVars == <<sl_nodes, sl_level, sl_size, sl_average_level, sl_max_level,
            sl_insertion_cost, sl_model>>

vars == <<bstVars, rbVars, hmVars, oaVars, slVars>>

\* the variables of the other containers
bstOthers == <<rbVars, hmVars, oaVars, slVars>>
rbOthers == <<bstVars, hmVars, oaVars, slVars>>
hmOthers == <<bstVars, rbVars, oaVars, slVars>>
oaOthers == <<bstVars, rbVars, hmVars, slVars>>
slOthers == <<bstVars, rbVars, hmVars, oaVars>>

---------------------------------------------------------------------------
(* Bounds of the model. *)

\* BinarySearchTree: keys are 1..BSTMaxKey, values 1..BSTMaxVal, and an
\* insert of a new key is taken only while size < BSTMaxSize
BSTMaxKey == 4
BSTMaxVal == 2
BSTMaxSize == 4

BSTKeys == 1..BSTMaxKey
BSTValues == 1..BSTMaxVal

\* RedBlackTree: keys are 1..RBMaxKey, values 1..RBMaxVal; an insert of a new
\* key is taken only while size < RBMaxSize; the iterations of the loop of
\* delete_recursive are counted up to RBMaxIter
RBMaxKey == 4
RBMaxVal == 2
RBMaxSize == 4
RBMaxIter == 4

\* RedBlackTree: a call that raises rebalance_count is taken only while the
\* count is below the bound of the workload
RBMaxRebalance == 3
RBInsMaxRebalance == 4
RBDeepMaxRebalance == 6

RBKeys == 1..RBMaxKey
RBValues == 1..RBMaxVal

\* RedBlackTree, insert-only workloads: keys are 1..RBInsMaxKey
RBInsMaxKey == 5

RBInsKeys == 1..RBInsMaxKey

\* RedBlackTree, deep trees: keys are 1..RBDeepMaxKey, with the one value 1
RBDeepMaxKey == 7

RBDeepKeys == 1..RBDeepMaxKey

\* RedBlackTree, workloads that watch rebalance_count: keys are
\* 1..RBCountMaxKey, with the one value 1, and the count is bounded by
\* RBCountMaxRebalance
RBCountMaxKey == 5
RBCountMaxRebalance == 5

RBCountKeys == 1..RBCountMaxKey

\* RedBlackTree, sequential insertion (test_sequential_insertion): RBSeqCount
\* keys in ascending order, "key0000" onwards in the test; the model lets the
\* first key be any of 0..RBSeqMaxStart.  RBSeqHeightLimit is the height the
\* test asserts the tree stays below.
RBSeqCount == 50
RBSeqHeightLimit == 15
RBSeqMaxStart == 2

\* BinarySearchTree next to HashMap and SkipList in the update workloads:
\* keys are 1..UpdBSTMaxKey
UpdBSTMaxKey == 2

UpdBSTKeys == 1..UpdBSTMaxKey

\* HashMap: keys are 1..HMMaxKey, values 1..HMMaxVal; an insert of a new key
\* is taken only while total_insertions < HMMaxInsertions
HMMaxKey == 2
HMMaxVal == 2
HMMaxInsertions == 3

HMKeys == 1..HMMaxKey
HMValues == 1..HMMaxVal

\* OpenAddressingHashTable: the capacity given to new is 0..OAMaxCapacity,
\* keys are 1..OAMaxKey; values are only stored and returned, two of them
\* tell an update from the value it replaces
OAMaxCapacity == 3
OAMaxKey == 2
OAMaxProbes == 2

OACapacities == 0..OAMaxCapacity
OAKeys == 1..OAMaxKey
OAValues == {1, 2}

\* SkipList: keys are 1..SLMaxKey; values are only stored and returned
SLMaxKey == 2

SLKeys == 1..SLMaxKey
SLValues == {1, 2}

---------------------------------------------------------------------------
(* Option<T> *)

None == <<>>
Some(x) == <<x>>
IsSome(o) == o # <<>>
IsNone(o) == o = <<>>
Unwrap(o) == o[1]

\* An f32 quotient of two small integers, kept as the fraction in lowest
\* terms: equal quotients are equal values.
RECURSIVE GCD(_, _)
GCD(a, b) == IF b = 0 THEN a ELSE GCD(b, a % b)

Ratio(num, den) == <<num \div GCD(num, den), den \div GCD(num, den)>>

Max(a, b) == IF a >= b THEN a ELSE b

---------------------------------------------------------------------------
(* The abstract key -> value map a container stands for: a function whose  *)
(* domain is the set of present keys.                                      *)

MapEmpty == <<>>
MapGet(m, k) == IF k \in DOMAIN m THEN Some(m[k]) ELSE None
MapPut(m, k, v) == [x \in DOMAIN m \cup {k} |-> IF x = k THEN v ELSE m[x]]
MapRemove(m, k) == [x \in DOMAIN m \ {k} |-> m[x]]

---------------------------------------------------------------------------
(* RedBlackTree, src/src/red_black_tree.rs *)

\* Color
Red == "Red"
Black == "Black"

RBNode(k, v, c, l, r) ==
    [key |-> k, value |-> v, color |-> c, left |-> l, right |-> r]

\* Node::new: new nodes are red
RBNodeNew(key, value) == RBNode(key, value, Red, None, None)

\* Node::height, with map_or(0, ..) for an absent child
RECURSIVE RBHeight(_)
RBHeight(node) ==
    IF IsNone(node) THEN 0
    ELSE 1 + Max(RBHeight(Unwrap(node).left), RBHeight(Unwrap(node).right))

\* rotate_right that hangs the left child's subtrees on the wrong sides
RBRotateRightMisplaces(node) ==
    IF IsNone(node.left) THEN node
    ELSE LET left_child == Unwrap(node.left) IN
         RBNode(left_child.key, left_child.value, left_child.color,
                left_child.right,
                Some(RBNode(node.key, node.value, node.color,
                            left_child.left, node.right)))

\* rotate_right on the node record (nothing happens without a left child)
RBRotateRight(node) ==
    IF IsNone(node.left) THEN node
    ELSE LET left_child == Unwrap(node.left) IN
         RBNode(left_child.key, left_child.value, left_child.color,
                left_child.left,
                Some(RBNode(node.key, node.value, node.color,
                            left_child.right, node.right)))

\* rotate_left that forgets `node.value = right_child.value`
RBRotateLeftKeepsValue(node) ==
    IF IsNone(node.right) THEN node
    ELSE LET right_child == Unwrap(node.right) IN
         RBNode(right_child.key, node.value, right_child.color,
                Some(RBNode(node.key, node.value, node.color,
                            node.left, right_child.left)),
                right_child.right)

\* rotate_left on the node record (nothing happens without a right child)
RBRotateLeft(node) ==
    IF IsNone(node.right) THEN node
    ELSE LET right_child == Unwrap(node.right) IN
         RBNode(right_child.key, right_child.value, right_child.color,
                Some(RBNode(node.key, node.value, node.color,
                            node.left, right_child.left)),
                right_child.right)

\* `if let Some(ref mut c) = child { c.color = color }`
RBPaint(child, color) ==
    IF IsNone(child) THEN child ELSE Some([Unwrap(child) EXCEPT !.color = color])

\* and_then(..).map_or(0, |_| 1): 1 when the grandchild exists
RBHas(child) == IF IsSome(child) THEN 1 ELSE 0

\* A faulty fix_insert, against which the properties are tested: it rotates
\* only when the heights differ by more than 10.
RBFixInsertLate(node) ==
    LET left_height == RBHeight(node.left)
        right_height == RBHeight(node.right)
        height_diff == IF left_height >= right_height
                       THEN left_height - right_height
                       ELSE right_height - left_height
    IN
    IF height_diff > 10
    THEN IF left_height > right_height
         THEN LET left_child == Unwrap(node.left)
                  rotated ==
                      IF RBHas(left_child.left) > RBHas(left_child.right)
                      THEN RBRotateRight(node)
                      ELSE RBRotateRight(
                               [node EXCEPT !.left = Some(RBRotateLeft(left_child))])
              IN [node |-> [rotated EXCEPT !.color = Black,
                                           !.right = RBPaint(rotated.right, Red)],
                  rebalanced |-> TRUE]
         ELSE LET right_child == Unwrap(node.right)
                  rotated ==
                      IF RBHas(right_child.right) > RBHas(right_child.left)
                      THEN RBRotateLeft(node)
                      ELSE RBRotateLeft(
                               [node EXCEPT !.right = Some(RBRotateRight(right_child))])
              IN [node |-> [rotated EXCEPT !.color = Black,
                                           !.left = RBPaint(rotated.left, Red)],
                  rebalanced |-> TRUE]
    ELSE LET left_is_red == IsSome(node.left) /\ Unwrap(node.left).color = Red
             right_is_red == IsSome(node.right) /\ Unwrap(node.right).color = Red
         IN IF left_is_red /\ right_is_red
            THEN [node |-> [node EXCEPT !.color = Red,
                                        !.left = RBPaint(node.left, Black),
                                        !.right = RBPaint(node.right, Black)],
                  rebalanced |-> TRUE]
            ELSE [node |-> node, rebalanced |-> FALSE]

\* fix_insert: the node afterwards and whether it rebalanced
RBFixInsert(node) ==
    LET left_height == RBHeight(node.left)
        right_height == RBHeight(node.right)
        height_diff == IF left_height >= right_height
                       THEN left_height - right_height
                       ELSE right_height - left_height
    IN
    IF height_diff > 1
    THEN IF left_height > right_height
         THEN LET left_child == Unwrap(node.left)
                  rotated ==
                      IF RBHas(left_child.left) > RBHas(left_child.right)
                      THEN RBRotateRight(node)
                      ELSE RBRotateRight(
                               [node EXCEPT !.left = Some(RBRotateLeft(left_child))])
              IN [node |-> [rotated EXCEPT !.color = Black,
                                           !.right = RBPaint(rotated.right, Red)],
                  rebalanced |-> TRUE]
         ELSE LET right_child == Unwrap(node.right)
                  rotated ==
                      IF RBHas(right_child.right) > RBHas(right_child.left)
                      THEN RBRotateLeft(node)
                      ELSE RBRotateLeft(
                               [node EXCEPT !.right = Some(RBRotateRight(right_child))])
              IN [node |-> [rotated EXCEPT !.color = Black,
                                           !.left = RBPaint(rotated.left, Red)],
                  rebalanced |-> TRUE]
    ELSE LET left_is_red == IsSome(node.left) /\ Unwrap(node.left).color = Red
             right_is_red == IsSome(node.right) /\ Unwrap(node.right).color = Red
         IN IF left_is_red /\ right_is_red
            THEN [node |-> [node EXCEPT !.color = Red,
                                        !.left = RBPaint(node.left, Black),
                                        !.right = RBPaint(node.right, Black)],
                  rebalanced |-> TRUE]
            ELSE [node |-> node, rebalanced |-> FALSE]

\* the element of a one-element set; a value bound by \in is computed once
TheOne(S) == CHOOSE x \in S : TRUE

\* insert_recursive after the descent into a child has returned sub: the
\* child (or the value) is stored in n, fix_insert runs on n
RBInsertReturn(n, key, value, sub) ==
    TheOne({[node |-> Some(fixed.node),
             rebalance_occurred |-> sub.rebalance_occurred \/ fixed.rebalanced]
            : fixed \in {RBFixInsert(
                  IF key < n.key THEN [n EXCEPT !.left = sub.node]
                  ELSE IF key > n.key THEN [n EXCEPT !.right = sub.node]
                  ELSE [n EXCEPT !.value = value])}})

\* insert_recursive: the new subtree and the flag rebalance_occurred
RECURSIVE RBInsertRecursive(_, _, _, _)
RBInsertRecursive(node, key, value, rebalance_occurred) ==
    IF IsNone(node)
    THEN [node |-> Some(RBNodeNew(key, value)),
          rebalance_occurred |-> rebalance_occurred]
    ELSE TheOne({RBInsertReturn(Unwrap(node), key, value, sub)
            : sub \in {IF key < Unwrap(node).key
                       THEN RBInsertRecursive(Unwrap(node).left, key, value,
                                              rebalance_occurred)
                       ELSE IF key > Unwrap(node).key
                       THEN RBInsertRecursive(Unwrap(node).right, key, value,
                                              rebalance_occurred)
                       ELSE [node |-> None,
                             rebalance_occurred |-> rebalance_occurred]}})

\* get_recursive
RECURSIVE RBGetRecursive(_, _)
RBGetRecursive(node, key) ==
    IF IsNone(node) THEN None
    ELSE LET n == Unwrap(node) IN
         IF key = n.key THEN Some(n.value)
         ELSE IF key < n.key THEN RBGetRecursive(n.left, key)
         ELSE RBGetRecursive(n.right, key)

\* RedBlackTree::get
RBGetRet(key) == RBGetRecursive(rb_root, key)

\* the node delete_recursive's descent stops at (None when it runs off the tree)
RECURSIVE RBDeleteTarget(_, _)
RBDeleteTarget(node, key) ==
    IF IsNone(node) THEN None
    ELSE LET n == Unwrap(node) IN
         IF key = n.key THEN node
         ELSE IF key < n.key THEN RBDeleteTarget(n.left, key)
         ELSE RBDeleteTarget(n.right, key)

\* delete_recursive, given `current` as the loop of the two-children arm left
\* it: the new subtree and the returned Option<u32>
RECURSIVE RBDeleteRecursive(_, _, _)
RBDeleteRecursive(node, key, current) ==
    IF IsNone(node) THEN [node |-> None, ret |-> None]
    ELSE LET n == Unwrap(node) IN
         IF key = n.key
         THEN [node |-> IF IsNone(n.left) THEN n.right
                        ELSE IF IsNone(n.right) THEN n.left
                        ELSE Some([current EXCEPT !.left = n.left]),
               ret |-> Some(n.value)]
         ELSE IF key < n.key
         THEN LET r == RBDeleteRecursive(n.left, key, current) IN
              [node |-> Some([n EXCEPT !.left = r.node]), ret |-> r.ret]
         ELSE LET r == RBDeleteRecursive(n.right, key, current) IN
              [node |-> Some([n EXCEPT !.right = r.node]), ret |-> r.ret]

\* RedBlackTree::new
RBNew ==
    /\ rb_root = None
    /\ rb_size = 0
    /\ rb_tree_height = 0
    /\ rb_balance_ratio = 1
    /\ rb_rebalance_count = 0
    /\ rb_rotation_count = 0
    /\ rb_color_fix_count = 0
    /\ rb_average_depth = 0
    /\ rb_pc = "idle"
    /\ rb_del = None
    /\ rb_model = MapEmpty

\* A faulty update_metrics, against which the properties are tested: it
\* counts the edges of the longest path.
RBUpdateMetricsCountsEdges(root, size) ==
    /\ rb_tree_height' = IF IsNone(root) THEN 0 ELSE RBHeight(root) - 1
    /\ rb_balance_ratio' = IF size = 0 THEN 0 ELSE 1

\* update_metrics
RBUpdateMetrics(root, size) ==
    /\ rb_tree_height' = RBHeight(root)
    /\ rb_balance_ratio' = IF size = 0 THEN 0 ELSE 1

\* insert_recursive once more, counting the calls of fix_insert on the
\* return path that rotate or recolor: those that change the node they are
\* given
RBInsertCountingReturn(n, key, value, sub) ==
    TheOne({[node |-> Some(RBFixInsert(stored).node),
             fixes |-> sub.fixes
                       + (IF RBFixInsert(stored).node # stored THEN 1 ELSE 0)]
            : stored \in {IF key < n.key THEN [n EXCEPT !.left = sub.node]
                          ELSE IF key > n.key THEN [n EXCEPT !.right = sub.node]
                          ELSE [n EXCEPT !.value = value]}})

RECURSIVE RBInsertCounting(_, _, _)
RBInsertCounting(node, key, value) ==
    IF IsNone(node)
    THEN [node |-> Some(RBNodeNew(key, value)), fixes |-> 0]
    ELSE TheOne({RBInsertCountingReturn(Unwrap(node), key, value, sub)
            : sub \in {IF key < Unwrap(node).key
                       THEN RBInsertCounting(Unwrap(node).left, key, value)
                       ELSE IF key > Unwrap(node).key
                       THEN RBInsertCounting(Unwrap(node).right, key, value)
                       ELSE [node |-> None, fixes |-> 0]}})

RBInsertFixes(node, key, value) == RBInsertCounting(node, key, value).fixes

\* insert_recursive once more, collecting the nodes fix_insert is called on,
\* as they are when it is called
RBInsertCallsReturn(n, key, value, sub) ==
    TheOne({[node |-> Some(RBFixInsert(stored).node),
             calls |-> sub.calls \cup {stored}]
            : stored \in {IF key < n.key THEN [n EXCEPT !.left = sub.node]
                          ELSE IF key > n.key THEN [n EXCEPT !.right = sub.node]
                          ELSE [n EXCEPT !.value = value]}})

RECURSIVE RBInsertCalls(_, _, _)
RBInsertCalls(node, key, value) ==
    IF IsNone(node)
    THEN [node |-> Some(RBNodeNew(key, value)), calls |-> {}]
    ELSE TheOne({RBInsertCallsReturn(Unwrap(node), key, value, sub)
            : sub \in {IF key < Unwrap(node).key
                       THEN RBInsertCalls(Unwrap(node).left, key, value)
                       ELSE IF key > Unwrap(node).key
                       THEN RBInsertCalls(Unwrap(node).right, key, value)
                       ELSE [node |-> None, calls |-> {}]}})

\* the nodes fix_insert is called on in insert(key, value)
RBFixInsertCalls(key, value) == RBInsertCalls(rb_root, key, value).calls

\* A faulty insert, against which the properties are tested: it adds to
\* rebalance_count once for every rotating or recoloring call of fix_insert.
RBInsertResultCountsAll(key, value) ==
    LET is_new == IsNone(RBGetRet(key))
        r == RBInsertRecursive(rb_root, key, value, FALSE)
    IN  [root |-> RBPaint(r.node, Black),
         size |-> IF is_new THEN rb_size + 1 ELSE rb_size,
         rebalance_count |-> rb_rebalance_count
                                 + RBInsertFixes(rb_root, key, value)]

\* RedBlackTree::insert: root, size and rebalance_count when it returns
RBInsertResult(key, value) ==
    LET is_new == IsNone(RBGetRet(key))
        r == RBInsertRecursive(rb_root, key, value, FALSE)
    IN  [root |-> RBPaint(r.node, Black),
         size |-> IF is_new THEN rb_size + 1 ELSE rb_size,
         rebalance_count |-> IF r.rebalance_occurred
                             THEN rb_rebalance_count + 1
                             ELSE rb_rebalance_count]

\* A faulty insert, against which the properties are tested: it stores the
\* height the tree had in average_depth.
RBInsertWritesAverageDepth ==
    /\ rb_average_depth' = rb_tree_height
    /\ UNCHANGED <<rb_rotation_count, rb_color_fix_count>>

\* insert and the functions it calls leave rotation_count, color_fix_count
\* and average_depth alone
RBInsertKeepsMetrics == UNCHANGED rbUnwritten

\* RedBlackTree::insert
RBInsert(key, value) ==
    \E r \in {RBInsertResult(key, value)} :
        /\ rb_pc = "idle"
        /\ rb_root' = r.root
        /\ rb_size' = r.size
        /\ rb_rebalance_count' = r.rebalance_count
        /\ RBInsertKeepsMetrics
        /\ RBUpdateMetrics(r.root, r.size)
        /\ rb_model' = MapPut(rb_model, key, value)
        /\ UNCHANGED <<rb_pc, rb_del>>

\* RedBlackTree::get
RBGet(key) ==
    /\ rb_pc = "idle"
    /\ UNCHANGED rbVars

\* the end of RedBlackTree::delete, once delete_recursive has returned r
RBDeleteReturn(key, r) ==
    LET size == IF rb_size > 0 THEN rb_size - 1 ELSE 0 IN
    /\ rb_root' = r.node
    /\ rb_pc' = "idle"
    /\ rb_del' = None
    /\ rb_model' = MapRemove(rb_model, key)
    /\ UNCHANGED rbUnwritten
    /\ IF IsSome(r.ret)
       THEN /\ rb_size' = size
            /\ rb_rebalance_count' = rb_rebalance_count + 1
            /\ RBUpdateMetrics(r.node, size)
       ELSE UNCHANGED <<rb_size, rb_tree_height, rb_balance_ratio,
                        rb_rebalance_count>>

\* RedBlackTree::delete: the returned Option<u32>, the value of the node the
\* descent stops at
RBDeleteRet(key) ==
    LET target == RBDeleteTarget(rb_root, key) IN
    IF IsNone(target) THEN None ELSE Some(Unwrap(target).value)

\* RedBlackTree::delete up to the loop of the two-children arm: a call that
\* does not reach the loop returns at once
RBDelete(key) ==
    LET target == RBDeleteTarget(rb_root, key)
        two == IsSome(target) /\ IsSome(Unwrap(target).left)
                              /\ IsSome(Unwrap(target).right)
    IN
    /\ rb_pc = "idle"
    /\ IF two
       THEN /\ rb_pc' = "delete_loop"
            /\ rb_del' = Some([key |-> key,
                               current |-> Unwrap(Unwrap(target).right),
                               iter |-> 0])
            /\ UNCHANGED <<rb_root, rb_size, rb_tree_height, rb_balance_ratio,
                           rb_rebalance_count, rbUnwritten, rb_model>>
       ELSE RBDeleteReturn(key, RBDeleteRecursive(rb_root, key, None))

\* one evaluation of `while let Some(mut left_child) = current.left.take()`
\* and of its body; when the loop is left, the rest of the call
RBDeleteLoop ==
    /\ rb_pc = "delete_loop"
    /\ LET d == Unwrap(rb_del)
           current == d.current
       IN
       IF IsNone(current.left)
       THEN RBDeleteReturn(d.key, RBDeleteRecursive(rb_root, d.key, current))
       ELSE LET left_child == Unwrap(current.left) IN
            IF IsNone(left_child.left)
            THEN RBDeleteReturn(d.key,
                     RBDeleteRecursive(rb_root, d.key,
                         [current EXCEPT !.left = left_child.right]))
            ELSE /\ rb_del' = Some([d EXCEPT !.iter =
                                       IF d.iter < RBMaxIter THEN d.iter + 1
                                                             ELSE d.iter])
                 /\ UNCHANGED <<rb_root, rb_size, rb_tree_height,
                                rb_balance_ratio, rb_rebalance_count,
                                rbUnwritten, rb_pc, rb_model>>

---------------------------------------------------------------------------
(* BinarySearchTree, src/src/bst.rs *)

BSTNode(k, v, l, r) == [key |-> k, value |-> v, left |-> l, right |-> r]

\* A faulty record of the depth, against which the properties are tested:
\* it takes the depth of the parent for that of the child.
BSTDepthMaxOfParent(max_depth, depth) == Max(max_depth, depth)

\* `metrics.max_depth = metrics.max_depth.max(depth + 1)`
BSTDepthMax(max_depth, depth) == Max(max_depth, depth + 1)

\* insert_recursive: the new subtree, whether a node was created, and
\* metrics.max_depth after the call (raised on the way back of a creation).
RECURSIVE BSTInsertRecursive(_, _, _, _, _)
BSTInsertRecursive(node, key, value, depth, max_depth) ==
    IF IsNone(node)
    THEN [node |-> Some(BSTNode(key, value, None, None)),
          is_new |-> TRUE, max_depth |-> max_depth]
    ELSE LET n == Unwrap(node) IN
         IF key < n.key
         THEN LET r == BSTInsertRecursive(n.left, key, value, depth + 1, max_depth) IN
              [node |-> Some([n EXCEPT !.left = r.node]),
               is_new |-> r.is_new,
               max_depth |-> IF r.is_new THEN BSTDepthMax(r.max_depth, depth)
                                         ELSE r.max_depth]
         ELSE IF key > n.key
         THEN LET r == BSTInsertRecursive(n.right, key, value, depth + 1, max_depth) IN
              [node |-> Some([n EXCEPT !.right = r.node]),
               is_new |-> r.is_new,
               max_depth |-> IF r.is_new THEN BSTDepthMax(r.max_depth, depth)
                                         ELSE r.max_depth]
         ELSE [node |-> Some([n EXCEPT !.value = value]),
               is_new |-> FALSE, max_depth |-> max_depth]

\* search_recursive
RECURSIVE BSTSearchRecursive(_, _)
BSTSearchRecursive(node, key) ==
    IF IsNone(node) THEN None
    ELSE LET n == Unwrap(node) IN
         IF key < n.key THEN BSTSearchRecursive(n.left, key)
         ELSE IF key > n.key THEN BSTSearchRecursive(n.right, key)
         ELSE Some(n.value)

\* The (Some, Some) arm of delete_recursive.  The `while let` walk moves the
\* local reference `current` down the left spine of n.right and changes
\* nothing; the arm then takes n.right itself (not the node `current`
\* reached): n gets the right child's key and value, n.right becomes the
\* right child's LEFT subtree, and the right child, with its right subtree,
\* is dropped.
BSTDeleteTwoChildren(n) ==
    LET right_node == Unwrap(n.right) IN
    [n EXCEPT !.key = right_node.key,
              !.value = right_node.value,
              !.right = right_node.left]

\* delete_recursive: the new subtree and the returned bool.
RECURSIVE BSTDeleteRecursive(_, _)
BSTDeleteRecursive(node, key) ==
    IF IsNone(node) THEN [node |-> None, ret |-> FALSE]
    ELSE LET n == Unwrap(node) IN
         IF key < n.key
         THEN LET r == BSTDeleteRecursive(n.left, key) IN
              [node |-> Some([n EXCEPT !.left = r.node]), ret |-> r.ret]
         ELSE IF key > n.key
         THEN LET r == BSTDeleteRecursive(n.right, key) IN
              [node |-> Some([n EXCEPT !.right = r.node]), ret |-> r.ret]
         ELSE IF IsNone(n.left) /\ IsNone(n.right)
              THEN [node |-> None, ret |-> TRUE]
         ELSE IF IsNone(n.right)
              THEN [node |-> n.left, ret |-> TRUE]
         ELSE IF IsNone(n.left)
              THEN [node |-> n.right, ret |-> TRUE]
         ELSE [node |-> Some(BSTDeleteTwoChildren(n)), ret |-> TRUE]

\* BinarySearchTree::new
BSTNew ==
    /\ bst_root = None
    /\ bst_size = 0
    /\ bst_max_depth = 0

\* A faulty insert, against which the properties are tested: it counts every
\* insert as a new key.
BSTInsertResultAlwaysCounts(key, value) ==
    LET r == BSTInsertRecursive(bst_root, key, value, 0, bst_max_depth)
    IN  [root |-> r.node, max_depth |-> r.max_depth, size |-> bst_size + 1]

\* BinarySearchTree::insert: the fields when it returns
BSTInsertResult(key, value) ==
    LET r == BSTInsertRecursive(bst_root, key, value, 0, bst_max_depth)
    IN  [root |-> r.node, max_depth |-> r.max_depth,
         size |-> IF r.is_new THEN bst_size + 1 ELSE bst_size]

\* BinarySearchTree::insert
BSTInsert(key, value) ==
    \E r \in {BSTInsertResult(key, value)} :
        /\ bst_root' = r.root
        /\ bst_max_depth' = r.max_depth
        /\ bst_size' = r.size

\* BinarySearchTree::get: the returned Option<u32>
BSTGetRet(key) == BSTSearchRecursive(bst_root, key)

\* BinarySearchTree::get (it writes only the comparison counter)
BSTGet(key) ==
    UNCHANGED <<bst_root, bst_size, bst_max_depth>>

\* BinarySearchTree::delete: the returned bool
BSTDeleteRet(key) == BSTDeleteRecursive(bst_root, key).ret

\* BinarySearchTree::delete
BSTDelete(key) ==
    LET r == BSTDeleteRecursive(bst_root, key) IN
    /\ bst_root' = r.node
    /\ bst_size' = IF r.ret THEN bst_size - 1 ELSE bst_size
    /\ UNCHANGED bst_max_depth

\* BinarySearchTree::len
BSTLen == bst_size

---------------------------------------------------------------------------
(* HashMap (separate chaining), src/src/lib.rs *)

BUCKET_COUNT == 256

\* The u64 hashes the model gives to keys: two that fall in bucket 0 and one
\* that falls in bucket 1.
HMHashes == {0, 1, BUCKET_COUNT}

\* hash_key: DefaultHasher over the key, some fixed function of the key
HMHashKey(key) == hm_hash[key]

\* bucket_index; the model's buckets are numbered from 0 like the Vec
HMBucketIndex(hash) == hash % BUCKET_COUNT

HMBucketOf(key) == hm_buckets[HMBucketIndex(HMHashKey(key))]

\* position (from 1) of the first entry of the bucket with this key, 0 if none:
\* the scan `for entry in bucket.iter()` with `entry.0 == key`
HMFind(bucket, key) ==
    IF \E i \in 1..Len(bucket) : bucket[i][1] = key
    THEN CHOOSE i \in 1..Len(bucket) :
             /\ bucket[i][1] = key
             /\ \A j \in 1..(i - 1) : bucket[j][1] # key
    ELSE 0

\* A faulty removal, against which the properties are tested: it removes the
\* head of the chain whatever the position found.
HMBucketRemoveHead(bucket, i) == Tail(bucket)

\* Vec::remove(i): the later entries shift down by one
HMBucketRemove(bucket, i) ==
    [j \in 1..(Len(bucket) - 1) |-> IF j < i THEN bucket[j] ELSE bucket[j + 1]]

\* buckets.iter().map(|bucket| bucket.len()).max()
HMMaxChain(buckets) ==
    CHOOSE m \in {Len(buckets[b]) : b \in DOMAIN buckets} :
        \A b \in DOMAIN buckets : Len(buckets[b]) <= m

\* A faulty update_metrics, against which the properties are tested: it
\* counts every new key as a collision.
HMUpdateMetricsAllCollide(was_collision) ==
    /\ hm_total_insertions' = hm_total_insertions + 1
    /\ hm_total_collisions' = hm_total_collisions + 1
    /\ hm_max_chain_length' = HMMaxChain(hm_buckets')
    /\ hm_average_load_factor' = Ratio(hm_size', BUCKET_COUNT)

\* update_metrics, run after buckets and size have been changed
HMUpdateMetrics(was_collision) ==
    /\ hm_total_insertions' = hm_total_insertions + 1
    /\ hm_total_collisions' =
           IF was_collision THEN hm_total_collisions + 1 ELSE hm_total_collisions
    /\ hm_max_chain_length' = HMMaxChain(hm_buckets')
    /\ hm_average_load_factor' = Ratio(hm_size', BUCKET_COUNT)

\* HashMap::new; h is the hash function of the build
HMNew(h) ==
    /\ hm_hash = h
    /\ hm_buckets = [b \in 0..(BUCKET_COUNT - 1) |-> <<>>]
    /\ hm_size = 0
    /\ hm_total_insertions = 0
    /\ hm_total_collisions = 0
    /\ hm_max_chain_length = 0
    /\ hm_average_load_factor = Ratio(0, 1)
    /\ hm_model = MapEmpty

\* HashMap::insert: buckets and size when it returns, whether the key was
\* new and whether its bucket was occupied
HMInsertResult(key, value) ==
    LET idx == HMBucketIndex(HMHashKey(key))
        bucket == hm_buckets[idx]
        i == HMFind(bucket, key)
    IN  IF i # 0
        THEN [buckets |-> [hm_buckets EXCEPT ![idx][i] = <<key, value>>],
              size |-> hm_size, is_new |-> FALSE, was_collision |-> FALSE]
        ELSE [buckets |-> [hm_buckets EXCEPT ![idx] = Append(bucket, <<key, value>>)],
              size |-> hm_size + 1, is_new |-> TRUE,
              was_collision |-> bucket # <<>>]

HMInsert(key, value) ==
    \E r \in {HMInsertResult(key, value)} :
        /\ hm_model' = MapPut(hm_model, key, value)
        /\ hm_buckets' = r.buckets
        /\ hm_size' = r.size
        /\ IF r.is_new
           THEN HMUpdateMetrics(r.was_collision)
           ELSE UNCHANGED <<hm_total_insertions, hm_total_collisions,
                            hm_max_chain_length, hm_average_load_factor>>
        /\ UNCHANGED hm_hash

\* get(key) on the given buckets: the value it returns
HMGetIn(buckets, key) ==
    LET bucket == buckets[HMBucketIndex(HMHashKey(key))]
        i == HMFind(bucket, key)
    IN  IF i # 0 THEN Some(bucket[i][2]) ELSE None

\* the value get(key) returns
HMGetRet(key) == HMGetIn(hm_buckets, key)

HMGet(key) == UNCHANGED hmVars

\* the value delete(key) returns
HMDeleteRet(key) == HMFind(HMBucketOf(key), key) # 0

\* A faulty delete, against which the properties are tested: it recomputes
\* max_chain_length and average_load_factor after a removal.
HMDeleteRefreshes(key) ==
    LET idx == HMBucketIndex(HMHashKey(key))
        bucket == hm_buckets[idx]
        i == HMFind(bucket, key)
    IN  /\ hm_model' = MapRemove(hm_model, key)
        /\ IF i # 0
           THEN /\ hm_buckets' = [hm_buckets EXCEPT ![idx] = HMBucketRemove(bucket, i)]
                /\ hm_size' = hm_size - 1
                /\ hm_max_chain_length' = HMMaxChain(hm_buckets')
                /\ hm_average_load_factor' = Ratio(hm_size', BUCKET_COUNT)
           ELSE UNCHANGED <<hm_buckets, hm_size, hm_max_chain_length,
                            hm_average_load_factor>>
        /\ UNCHANGED <<hm_hash, hm_total_insertions, hm_total_collisions>>

HMDelete(key) ==
    LET idx == HMBucketIndex(HMHashKey(key))
        bucket == hm_buckets[idx]
        i == HMFind(bucket, key)
    IN  /\ hm_model' = MapRemove(hm_model, key)
        /\ IF i # 0
           THEN /\ hm_buckets' = [hm_buckets EXCEPT ![idx] = HMBucketRemove(bucket, i)]
                /\ hm_size' = hm_size - 1
           ELSE UNCHANGED <<hm_buckets, hm_size>>
        /\ UNCHANGED <<hm_hash, hm_total_insertions, hm_total_collisions,
                       hm_max_chain_length, hm_average_load_factor>>

HMLen == hm_size

HMIsEmpty == hm_size = 0

---------------------------------------------------------------------------
(* OpenAddressingHashTable (linear probing, tombstones),                   *)
(* src/src/open_addressing.rs.  The counter total_insertions, which grows  *)
(* with every insert, is not part of the state.                            *)

\* The u64 hashes the model gives to keys: two with adjacent start indexes
\* and one that wraps around the table.
OAHashes == {0, 1, 5}

\* hash_key: DefaultHasher over the key, some fixed function of the key
OAHashKey(key) == oa_hash[key]

\* bucket_index panics when capacity is 0: `hash % capacity` divides by zero
OABucketIndexPanics(capacity) == capacity = 0

\* bucket_index
OABucketIndex(hash, capacity) == hash % capacity

\* Entry
OAEntry(key, value, tombstone) ==
    [key |-> key, value |-> value, tombstone |-> tombstone]

\* A faulty liveness test, against which the properties are tested: it
\* forgets the tombstone flag.
OALiveIgnoresTombstone(slot, key) == IsSome(slot) /\ Unwrap(slot).key = key

\* `entry.key == key && !entry.tombstone`
OALive(slot, key) ==
    IsSome(slot) /\ Unwrap(slot).key = key /\ ~Unwrap(slot).tombstone

\* A faulty test of the slot insert installs in, against which the
\* properties are tested: it reuses tombstones.
OAInsertInstallsOrReuses(slot) == IsNone(slot) \/ Unwrap(slot).tombstone

\* the arm `None =>` of insert: the slot a new entry is installed in
OAInsertInstalls(slot) == IsNone(slot)

\* The probe loop of insert from `index` with `probe_count` probes done:
\* the slot it stops at and why, or the panic "Hash table is full".
RECURSIVE OAInsertProbe(_, _, _, _, _)
OAInsertProbe(table, capacity, key, index, probe_count) ==
    IF OAInsertInstalls(table[index])
    THEN [kind |-> "empty", index |-> index, probe_count |-> probe_count]
    ELSE IF OALive(table[index], key)
    THEN [kind |-> "update", index |-> index, probe_count |-> probe_count]
    ELSE IF probe_count + 1 > capacity
    THEN [kind |-> "panic", index |-> index, probe_count |-> probe_count + 1]
    ELSE OAInsertProbe(table, capacity, key, (index + 1) % capacity,
                       probe_count + 1)

\* The probe loop of get: the value it returns, the probe steps it took and
\* the number it adds to total_probes (nothing when it gives up after more
\* than capacity steps).
RECURSIVE OAGetProbe(_, _, _, _, _)
OAGetProbe(table, capacity, key, index, probe_count) ==
    IF IsNone(table[index])
    THEN [ret |-> None, probe_count |-> probe_count, recorded |-> probe_count]
    ELSE IF OALive(table[index], key)
    THEN [ret |-> Some(Unwrap(table[index]).value),
          probe_count |-> probe_count, recorded |-> probe_count]
    ELSE IF probe_count + 1 > capacity
    THEN [ret |-> None, probe_count |-> probe_count + 1, recorded |-> 0]
    ELSE OAGetProbe(table, capacity, key, (index + 1) % capacity,
                    probe_count + 1)

\* A faulty marking of a deleted entry, against which the properties are
\* tested: it empties the slot.
OAMarkTombstoneEmpties(slot) == None

\* `entry.tombstone = true` in the slot of the entry delete found
OAMarkTombstone(slot) == Some([Unwrap(slot) EXCEPT !.tombstone = TRUE])

\* The loop of delete: the index of the live entry it marks, or None.
RECURSIVE OADeleteProbe(_, _, _, _, _)
OADeleteProbe(table, capacity, key, index, start) ==
    IF OALive(table[index], key)
    THEN Some(index)
    ELSE IF IsNone(table[index])
    THEN None
    ELSE IF (index + 1) % capacity = start
    THEN None
    ELSE OADeleteProbe(table, capacity, key, (index + 1) % capacity, start)

\* The scan of update_load_factor from slot i: the longest run of
\* consecutive Some slots.
RECURSIVE OAScan(_, _, _, _, _)
OAScan(table, capacity, i, consecutive, max_consecutive) ==
    IF i = capacity
    THEN Max(consecutive, max_consecutive)
    ELSE IF IsNone(table[i])
    THEN OAScan(table, capacity, i + 1, 0, Max(consecutive, max_consecutive))
    ELSE OAScan(table, capacity, i + 1, consecutive + 1, max_consecutive)

\* A faulty update_load_factor, against which the properties are tested: it
\* divides the size the call started with.
OAUpdateLoadFactorOfOldSize ==
    /\ oa_load_factor' = Ratio(oa_size, oa_capacity)
    /\ oa_clustering_factor' =
           Ratio(OAScan(oa_table', oa_capacity, 0, 0, 0), oa_capacity)

\* update_load_factor, run after table and size have been changed
OAUpdateLoadFactor ==
    /\ oa_load_factor' = Ratio(oa_size', oa_capacity)
    /\ oa_clustering_factor' =
           Ratio(OAScan(oa_table', oa_capacity, 0, 0, 0), oa_capacity)

\* OpenAddressingHashTable::new(capacity); h is the hash function of the build
OANew(capacity, h) ==
    /\ oa_hash = h
    /\ oa_table = [i \in 0..(capacity - 1) |-> None]
    /\ oa_size = 0
    /\ oa_capacity = capacity
    /\ oa_total_probes = 0
    /\ oa_max_probe_length = 0
    /\ oa_load_factor = Ratio(0, 1)
    /\ oa_clustering_factor = Ratio(0, 1)
    /\ oa_tombstone_count = 0
    /\ oa_panic = "none"
    /\ oa_model = MapEmpty

\* a panic ends the run: the table is not used after it
OAPanic(operation) ==
    /\ oa_panic' = operation
    /\ UNCHANGED <<oa_hash, oa_table, oa_size, oa_capacity, oa_total_probes,
                   oa_max_probe_length, oa_load_factor, oa_clustering_factor,
                   oa_tombstone_count, oa_model>>

\* A faulty record of the longest probe, against which the properties are
\* tested: it keeps the probe count of the latest new key.
OAMaxProbeLatest(probe_count) == probe_count

\* `if probe_count > self.metrics.max_probe_length { ... = probe_count }`
OAMaxProbe(probe_count) ==
    IF probe_count > oa_max_probe_length
    THEN probe_count ELSE oa_max_probe_length

\* A faulty start of the probe loop of insert, against which the properties
\* are tested: it starts at slot 0 whatever the hash.
OAInsertProbeOfSlotZero(key) ==
    OAInsertProbe(oa_table, oa_capacity, key, 0, 0)

\* the probe loop of insert(key) in the current table
OAInsertProbeOf(key) ==
    OAInsertProbe(oa_table, oa_capacity, key,
                  OABucketIndex(OAHashKey(key), oa_capacity), 0)

\* metrics.max_probe_length when insert(key) returns: the arm `None =>`
\* compares it with probe_count, the arm that updates a key leaves it
OAInsertMaxProbe(key) ==
    IF OAInsertProbeOf(key).kind = "empty"
    THEN OAMaxProbe(OAInsertProbeOf(key).probe_count)
    ELSE oa_max_probe_length

\* metrics.total_probes when insert(key) returns: both arms add probe_count
OAInsertTotalProbes(key) == oa_total_probes + OAInsertProbeOf(key).probe_count

OAInsert(key, value) ==
    /\ oa_panic = "none"
    /\ IF OABucketIndexPanics(oa_capacity)
       THEN OAPanic("insert")
       ELSE LET p == OAInsertProbeOf(key)
            IN  CASE p.kind = "empty" ->
                       /\ oa_table' = [oa_table EXCEPT ![p.index] =
                                           Some(OAEntry(key, value, FALSE))]
                       /\ oa_size' = oa_size + 1
                       /\ oa_total_probes' = OAInsertTotalProbes(key)
                       /\ oa_max_probe_length' = OAInsertMaxProbe(key)
                       /\ OAUpdateLoadFactor
                       /\ oa_model' = MapPut(oa_model, key, value)
                       /\ UNCHANGED <<oa_hash, oa_capacity, oa_tombstone_count,
                                      oa_panic>>
                  [] p.kind = "update" ->
                       /\ oa_table' = [oa_table EXCEPT ![p.index] =
                                           Some(OAEntry(key, value, FALSE))]
                       /\ oa_model' = MapPut(oa_model, key, value)
                       /\ oa_total_probes' = OAInsertTotalProbes(key)
                       /\ oa_max_probe_length' = OAInsertMaxProbe(key)
                       /\ UNCHANGED <<oa_hash, oa_size, oa_capacity,
                                      oa_load_factor, oa_clustering_factor,
                                      oa_tombstone_count, oa_panic>>
                  [] p.kind = "panic" -> OAPanic("insert")

\* insert panics: in bucket_index when capacity is 0, else when the probe
\* count exceeds capacity
OAInsertPanics(key) ==
    \/ OABucketIndexPanics(oa_capacity)
    \/ OAInsertProbe(oa_table, oa_capacity, key,
                     OABucketIndex(OAHashKey(key), oa_capacity), 0).kind = "panic"

\* get panics in bucket_index when capacity is 0
OAGetPanics(key) == OABucketIndexPanics(oa_capacity)

\* the probe loop of get(key) in the current table
OAGetProbeOf(key) ==
    OAGetProbe(oa_table, oa_capacity, key,
               OABucketIndex(OAHashKey(key), oa_capacity), 0)

\* the value get(key) returns when it does not panic
OAGetRet(key) == OAGetProbeOf(key).ret

\* metrics.total_probes when get(key) returns
OAGetTotalProbes(key) == oa_total_probes + OAGetProbeOf(key).recorded

OAGet(key) ==
    /\ oa_panic = "none"
    /\ IF OAGetPanics(key)
       THEN OAPanic("get")
       ELSE /\ oa_total_probes' = OAGetTotalProbes(key)
            /\ UNCHANGED <<oa_hash, oa_table, oa_size, oa_capacity,
                           oa_max_probe_length, oa_load_factor,
                           oa_clustering_factor, oa_tombstone_count, oa_panic,
                           oa_model>>

\* the calls OANext makes: those that leave total_probes within max_probes
OAInsertProbesInBounds(key, max_probes) ==
    IF OAInsertPanics(key) THEN TRUE
    ELSE OAInsertTotalProbes(key) <= max_probes

OAGetProbesInBounds(key, max_probes) ==
    IF OAGetPanics(key) THEN TRUE ELSE OAGetTotalProbes(key) <= max_probes

\* delete panics in bucket_index when capacity is 0
OADeletePanics(key) == OABucketIndexPanics(oa_capacity)

\* the slot delete(key) marks, if any
OADeleteSlot(key) ==
    LET start == OABucketIndex(OAHashKey(key), oa_capacity)
    IN  OADeleteProbe(oa_table, oa_capacity, key, start, start)

\* the value delete(key) returns when it does not panic
OADeleteRet(key) ==
    LET found == OADeleteSlot(key)
    IN  IF IsSome(found) THEN Some(Unwrap(oa_table[Unwrap(found)]).value) ELSE None

\* A faulty delete, against which the properties are tested: it does not
\* count the tombstone it leaves.
OADeleteUncounted(key) ==
    /\ oa_panic = "none"
    /\ IF OADeletePanics(key)
       THEN OAPanic("delete")
       ELSE LET found == OADeleteSlot(key)
            IN  /\ oa_model' = MapRemove(oa_model, key)
                /\ IF IsSome(found)
                   THEN /\ oa_table' = [oa_table EXCEPT ![Unwrap(found)] =
                               OAMarkTombstone(@)]
                        /\ oa_size' = Max(oa_size - 1, 0)
                        /\ OAUpdateLoadFactor
                        /\ UNCHANGED <<oa_hash, oa_capacity, oa_total_probes,
                                       oa_max_probe_length,
                                       oa_tombstone_count, oa_panic>>
                   ELSE UNCHANGED <<oa_hash, oa_table, oa_size, oa_capacity,
                                    oa_total_probes,
                                    oa_max_probe_length, oa_load_factor,
                                    oa_clustering_factor, oa_tombstone_count,
                                    oa_panic>>

OADelete(key) ==
    /\ oa_panic = "none"
    /\ IF OADeletePanics(key)
       THEN OAPanic("delete")
       ELSE LET found == OADeleteSlot(key)
            IN  /\ oa_model' = MapRemove(oa_model, key)
                /\ IF IsSome(found)
                   THEN /\ oa_table' = [oa_table EXCEPT ![Unwrap(found)] =
                               OAMarkTombstone(@)]
                        /\ oa_size' = Max(oa_size - 1, 0)
                        /\ oa_tombstone_count' = oa_tombstone_count + 1
                        /\ OAUpdateLoadFactor
                        /\ UNCHANGED <<oa_hash, oa_capacity, oa_total_probes,
                                       oa_max_probe_length, oa_panic>>
                   ELSE UNCHANGED <<oa_hash, oa_table, oa_size, oa_capacity,
                                    oa_total_probes,
                                    oa_max_probe_length, oa_load_factor,
                                    oa_clustering_factor, oa_tombstone_count,
                                    oa_panic>>

---------------------------------------------------------------------------
(* SkipList, src/src/skip_list.rs.  A NodePtr is the address of a Node in   *)
(* sl_nodes; a Node lives as long as it can be reached from the head (Rc).  *)
(* The counters total_insertions, total_searches and search_comparisons,    *)
(* which grow with every call, are not part of the state.                   *)

MAX_LEVEL == 16

\* the levels random_level returns in the model: the two lowest and the
\* highest
SLLevels == {0, 1, MAX_LEVEL}

SLHead == 0

\* Node::new; forward[lv] of the code is forward[lv + 1] here
SLNodeNew(key, value, level) ==
    [key |-> key, value |-> value, level |-> level,
     forward |-> [i \in 1..(level + 1) |-> None]]

\* node.borrow().forward[lv].clone()
SLForward(nodes, node, lv) == nodes[node].forward[lv + 1]

\* node.borrow_mut().forward[lv] = ptr
SLSetForward(nodes, node, lv, ptr) ==
    [nodes EXCEPT ![node].forward[lv + 1] = ptr]

\* The walk of search, insert and delete from level lv down to 0: at each
\* level advance while the next key is smaller than key, then record the
\* node reached.  The result is the update array after update.reverse(), a
\* function from levels to addresses.
RECURSIVE SLFindUpdate(_, _, _, _, _)
SLFindUpdate(nodes, key, current, lv, update) ==
    LET next == SLForward(nodes, current, lv)
    IN  IF IsSome(next) /\ nodes[Unwrap(next)].key < key
        THEN SLFindUpdate(nodes, key, Unwrap(next), lv, update)
        ELSE IF lv = 0
        THEN (lv :> current) @@ update
        ELSE SLFindUpdate(nodes, key, current, lv - 1, (lv :> current) @@ update)

\* the node after `node` at level 0 if it holds key: the exact-match check
SLMatchAtZero(nodes, node, key) ==
    LET next_at_zero == SLForward(nodes, node, 0)
    IN  IF IsSome(next_at_zero) /\ nodes[Unwrap(next_at_zero)].key = key
        THEN next_at_zero ELSE None

\* search(key) on the given nodes and list level: the value it returns
SLSearchIn(nodes, level, key) ==
    LET update == SLFindUpdate(nodes, key, SLHead, level, <<>>)
        found == SLMatchAtZero(nodes, update[0], key)
    IN  IF IsSome(found) THEN Some(nodes[Unwrap(found)].value) ELSE None

\* the value search(key) returns
SLSearchRet(key) == SLSearchIn(sl_nodes, sl_level, key)

SLSearch(key) == UNCHANGED slVars

\* Rc::new: the lowest address not in use
SLFresh(nodes) ==
    CHOOSE a \in 1..Cardinality(DOMAIN nodes) :
        /\ a \notin DOMAIN nodes
        /\ \A b \in 1..(a - 1) : b \in DOMAIN nodes

\* A faulty link loop, against which the properties are tested: the new node
\* does not take the pointers of its predecessors.
SLLinkDropsTail(nodes, update, new_node, last) ==
    [n \in DOMAIN nodes |->
        [nodes[n] EXCEPT !.forward =
            [i \in DOMAIN @ |->
                IF i - 1 <= last /\ n = update[i - 1]
                THEN Some(new_node)
                ELSE @[i]]]]

\* The link loop of insert, for the levels 0..last: the new node takes
\* forward[lv] of its predecessor update[lv], and the predecessor points to
\* the new node.  The iterations write different cells, and each reads the
\* cell it takes before any write to it.
SLLink(nodes, update, new_node, last) ==
    [n \in DOMAIN nodes |->
        [nodes[n] EXCEPT !.forward =
            [i \in DOMAIN @ |->
                IF i - 1 <= last /\ n = new_node
                THEN SLForward(nodes, update[i - 1], i - 1)
                ELSE IF i - 1 <= last /\ n = update[i - 1]
                THEN Some(new_node)
                ELSE @[i]]]]

\* A faulty unlinking, against which the properties are tested: it links
\* around the deleted node at level 0 only.
SLUnlinkAtZero(nodes, node, next_node, lv) ==
    IF lv = 0
    THEN SLSetForward(SLSetForward(nodes, next_node, lv, None), node, lv,
                      SLForward(nodes, next_node, lv))
    ELSE nodes

\* one unlinking of delete: take forward[lv] of the deleted node and store it
\* in its predecessor
SLUnlink(nodes, node, next_node, lv) ==
    SLSetForward(SLSetForward(nodes, next_node, lv, None), node, lv,
                 SLForward(nodes, next_node, lv))

\* A faulty unlink loop, against which the properties are tested: it stops
\* after the level it starts at.
SLUnlinkAllStopsEarly(nodes, update, key, lv, last) ==
    IF lv > last THEN nodes
    ELSE LET next_at_lv == SLForward(nodes, update[lv], lv)
         IN  IF IsSome(next_at_lv) /\ nodes[Unwrap(next_at_lv)].key = key
             THEN SLUnlink(nodes, update[lv], Unwrap(next_at_lv), lv)
             ELSE nodes

\* the unlink loop of delete, for the levels lv..last
RECURSIVE SLUnlinkAll(_, _, _, _, _)
SLUnlinkAll(nodes, update, key, lv, last) ==
    IF lv > last THEN nodes
    ELSE LET next_at_lv == SLForward(nodes, update[lv], lv)
         IN  IF IsSome(next_at_lv) /\ nodes[Unwrap(next_at_lv)].key = key
             THEN SLUnlinkAll(SLUnlink(nodes, update[lv], Unwrap(next_at_lv), lv),
                              update, key, lv + 1, last)
             ELSE SLUnlinkAll(nodes, update, key, lv + 1, last)

\* the addresses some forward pointer of the nodes in `reached` holds
SLPointedTo(nodes, reached) ==
    {Unwrap(nodes[n].forward[i]) :
        <<n, i>> \in {<<m, j>> \in reached \X (1..(MAX_LEVEL + 1)) :
                         j <= Len(nodes[m].forward) /\ IsSome(nodes[m].forward[j])}}

RECURSIVE SLReachable(_, _)
SLReachable(nodes, reached) ==
    LET more == reached \cup SLPointedTo(nodes, reached)
    IN  IF more = reached THEN reached ELSE SLReachable(nodes, more)

\* the drop of the Rcs: a node no pointer leads to is freed
SLDropUnreachable(nodes) ==
    [n \in SLReachable(nodes, {SLHead}) |-> nodes[n]]

\* the walk of update_metrics along level 0: <<total_level, count>>
RECURSIVE SLTotals(_, _, _, _)
SLTotals(nodes, current, total_level, count) ==
    LET next_opt == SLForward(nodes, current, 0)
    IN  IF IsNone(next_opt) THEN <<total_level, count>>
        ELSE SLTotals(nodes, Unwrap(next_opt),
                      total_level + nodes[Unwrap(next_opt)].level, count + 1)

\* update_metrics, run after the nodes and the level have been changed
SLUpdateMetrics ==
    LET totals == SLTotals(sl_nodes', SLHead, 0, 0)
    IN  /\ sl_average_level' =
               IF totals[2] > 0 THEN Ratio(totals[1], totals[2]) ELSE Ratio(0, 1)
        /\ sl_max_level' = sl_level'

\* SkipList::new
SLNew ==
    /\ sl_nodes = (SLHead :> SLNodeNew(0, 0, MAX_LEVEL))
    /\ sl_level = 0
    /\ sl_size = 0
    /\ sl_average_level = Ratio(0, 1)
    /\ sl_max_level = 0
    /\ sl_insertion_cost = 0
    /\ sl_model = MapEmpty

\* A faulty insert, against which the properties are tested: it does not
\* expand the list level.
SLInsertResultKeepsLevel(key, value, new_level) ==
    LET is_new == IsNone(SLSearchRet(key))
        level == sl_level
        update == SLFindUpdate(sl_nodes, key, SLHead, level, <<>>)
        existing_node == SLMatchAtZero(sl_nodes, update[0], key)
        new_node == SLFresh(sl_nodes)
        created == (new_node :> SLNodeNew(key, value, new_level)) @@ sl_nodes
    IN  IF ~is_new /\ IsSome(existing_node)
        THEN [nodes |-> [sl_nodes EXCEPT ![Unwrap(existing_node)].value = value],
              level |-> level, size |-> sl_size, linked |-> FALSE]
        ELSE [nodes |-> SLLink(created, update, new_node,
                               IF new_level < level THEN new_level ELSE level),
              level |-> level,
              size |-> IF is_new THEN sl_size + 1 ELSE sl_size,
              linked |-> TRUE]

\* insert, new_level being the value random_level returns: nodes, level and
\* size when it returns, and whether a node was linked (the early return of
\* the update of an existing key links none)
SLInsertResult(key, value, new_level) ==
    LET is_new == IsNone(SLSearchRet(key))
        level == IF new_level > sl_level THEN new_level ELSE sl_level
        update == SLFindUpdate(sl_nodes, key, SLHead, level, <<>>)
        existing_node == SLMatchAtZero(sl_nodes, update[0], key)
        new_node == SLFresh(sl_nodes)
        created == (new_node :> SLNodeNew(key, value, new_level)) @@ sl_nodes
    IN  IF ~is_new /\ IsSome(existing_node)
        THEN [nodes |-> [sl_nodes EXCEPT ![Unwrap(existing_node)].value = value],
              level |-> level, size |-> sl_size, linked |-> FALSE]
        ELSE [nodes |-> SLLink(created, update, new_node,
                               IF new_level < level THEN new_level ELSE level),
              level |-> level,
              size |-> IF is_new THEN sl_size + 1 ELSE sl_size,
              linked |-> TRUE]

\* insert; new_level is the value random_level returns
SLInsert(key, value, new_level) ==
    \E r \in {SLInsertResult(key, value, new_level)} :
        /\ sl_level' = r.level
        /\ sl_model' = MapPut(sl_model, key, value)
        /\ sl_nodes' = r.nodes
        /\ sl_size' = r.size
        /\ IF r.linked
           THEN /\ sl_insertion_cost' = new_level
                /\ SLUpdateMetrics
           ELSE UNCHANGED <<sl_average_level, sl_max_level, sl_insertion_cost>>

\* the node delete(key) removes, if any
SLDeleteNode(key) ==
    LET update == SLFindUpdate(sl_nodes, key, SLHead, sl_level, <<>>)
    IN  SLMatchAtZero(sl_nodes, update[0], key)

\* the value delete(key) returns
SLDeleteRet(key) ==
    LET node_to_delete == SLDeleteNode(key)
    IN  IF IsSome(node_to_delete)
        THEN Some(sl_nodes[Unwrap(node_to_delete)].value) ELSE None

SLDelete(key) ==
    LET update == SLFindUpdate(sl_nodes, key, SLHead, sl_level, <<>>)
    IN  /\ sl_model' = MapRemove(sl_model, key)
        /\ IF IsSome(SLDeleteNode(key))
           THEN /\ sl_nodes' = SLDropUnreachable(
                                   SLUnlinkAll(sl_nodes, update, key, 0, sl_level))
                /\ sl_size' = sl_size - 1
                /\ UNCHANGED <<sl_level, sl_insertion_cost>>
                /\ SLUpdateMetrics
           ELSE UNCHANGED <<sl_nodes, sl_level, sl_size, sl_average_level,
                            sl_max_level, sl_insertion_cost>>

SLLen == sl_size

SLIsEmpty == sl_size = 0

---------------------------------------------------------------------------
(* Specifications: one per container; the other containers stay as         *)
(* constructed.                                                            *)

\* a HashMap that is constructed and never used
HMIdle == HMNew([k \in HMKeys |-> 0])

\* an OpenAddressingHashTable that is constructed and never used
OAIdle == OANew(1, [k \in OAKeys |-> 0])

BSTInit == BSTNew /\ RBNew /\ HMIdle /\ OAIdle /\ SLNew

\* the model takes an insert that would add a node only below the size bound
BSTInsertInBounds(key) ==
    IsNone(BSTGetRet(key)) => bst_size < BSTMaxSize

BSTNext ==
    \/ \E key \in BSTKeys, value \in BSTValues :
          BSTInsertInBounds(key) /\ BSTInsert(key, value) /\ UNCHANGED bstOthers
    \/ \E key \in BSTKeys : BSTGet(key) /\ UNCHANGED bstOthers
    \/ \E key \in BSTKeys : BSTDelete(key) /\ UNCHANGED bstOthers

SpecBST == BSTInit /\ [][BSTNext]_vars

\* workloads that watch max_depth: two values suffice to tell an update
BSTDepthValues == {1, 2}

BSTDepthNext ==
    \/ \E key \in BSTKeys, value \in BSTDepthValues :
          BSTInsertInBounds(key) /\ BSTInsert(key, value) /\ UNCHANGED bstOthers
    \/ \E key \in BSTKeys : BSTGet(key) /\ UNCHANGED bstOthers
    \/ \E key \in BSTKeys : BSTDelete(key) /\ UNCHANGED bstOthers

SpecBSTDepth == BSTInit /\ [][BSTDepthNext]_vars

RBInit == RBNew /\ BSTNew /\ HMIdle /\ OAIdle /\ SLNew

\* the model takes an insert that would raise size only below the bound
RBInsertInBounds(key, max_size) ==
    IsNone(RBGetRet(key)) => rb_size < max_size

\* the model takes an insert or a delete that would raise rebalance_count
\* only below the bound
RBInsertCountInBounds(key, value, max_count) ==
    RBInsertResult(key, value).rebalance_count > rb_rebalance_count
        => rb_rebalance_count < max_count

RBDeleteCountInBounds(key, max_count) ==
    IsSome(RBDeleteRet(key)) => rb_rebalance_count < max_count

RBNext ==
    \/ \E key \in RBKeys, value \in RBValues :
          /\ RBInsertInBounds(key, RBMaxSize)
          /\ RBInsertCountInBounds(key, value, RBMaxRebalance)
          /\ RBInsert(key, value)
          /\ UNCHANGED rbOthers
    \/ \E key \in RBKeys : RBGet(key) /\ UNCHANGED rbOthers
    \/ \E key \in RBKeys :
          /\ RBDeleteCountInBounds(key, RBMaxRebalance)
          /\ RBDelete(key)
          /\ UNCHANGED rbOthers
    \/ RBDeleteLoop /\ UNCHANGED rbOthers

SpecRB == RBInit /\ [][RBNext]_vars

\* insert-only workloads
RBInsertOnlyNext ==
    \E key \in RBInsKeys, value \in RBValues :
        /\ RBInsertCountInBounds(key, value, RBInsMaxRebalance)
        /\ RBInsert(key, value)
        /\ UNCHANGED rbOthers

SpecRBInsertOnly == RBInit /\ [][RBInsertOnlyNext]_vars

\* workloads that watch rebalance_count
RBCountNext ==
    \/ \E key \in RBCountKeys :
          /\ RBInsertCountInBounds(key, 1, RBCountMaxRebalance)
          /\ RBInsert(key, 1)
          /\ UNCHANGED rbOthers
    \/ \E key \in RBCountKeys : RBGet(key) /\ UNCHANGED rbOthers
    \/ \E key \in RBCountKeys :
          /\ RBDeleteCountInBounds(key, RBCountMaxRebalance)
          /\ RBDelete(key)
          /\ UNCHANGED rbOthers
    \/ RBDeleteLoop /\ UNCHANGED rbOthers

SpecRBCount == RBInit /\ [][RBCountNext]_vars

\* the largest key of a non-empty tree
RECURSIVE RBLastKey(_)
RBLastKey(node) ==
    IF IsNone(node.right) THEN node.key ELSE RBLastKey(Unwrap(node.right))

\* test_sequential_insertion: `for i in 0..50 { tree.insert(key i, i) }`, the
\* keys ascending from the first one
RBSequentialNext ==
    \E key \in 0..(RBSeqMaxStart + RBSeqCount) :
        /\ rb_size < RBSeqCount
        /\ IF IsNone(rb_root) THEN key <= RBSeqMaxStart
                              ELSE key = RBLastKey(Unwrap(rb_root)) + 1
        /\ RBInsert(key, rb_size)
        /\ UNCHANGED rbOthers

SpecRBSequential == RBInit /\ [][RBSequentialNext]_vars

\* trees of up to RBDeepMaxKey nodes
RBDeepNext ==
    \/ \E key \in RBDeepKeys :
          /\ RBInsertInBounds(key, RBDeepMaxKey)
          /\ RBInsertCountInBounds(key, 1, RBDeepMaxRebalance)
          /\ RBInsert(key, 1)
          /\ UNCHANGED rbOthers
    \/ \E key \in RBDeepKeys : RBGet(key) /\ UNCHANGED rbOthers
    \/ \E key \in RBDeepKeys :
          /\ RBDeleteCountInBounds(key, RBDeepMaxRebalance)
          /\ RBDelete(key)
          /\ UNCHANGED rbOthers
    \/ RBDeleteLoop /\ UNCHANGED rbOthers

SpecRBDeep == RBInit /\ [][RBDeepNext]_vars

\* HashMap, for every hash function of the keys
HMInit ==
    /\ \E h \in [HMKeys -> HMHashes] : HMNew(h)
    /\ BSTNew /\ RBNew /\ OAIdle /\ SLNew

HMInsertInBounds(key) ==
    HMDeleteRet(key) \/ hm_total_insertions < HMMaxInsertions

HMNext ==
    \/ \E key \in HMKeys, value \in HMValues :
           HMInsertInBounds(key) /\ HMInsert(key, value) /\ UNCHANGED hmOthers
    \/ \E key \in HMKeys : HMGet(key) /\ UNCHANGED hmOthers
    \/ \E key \in HMKeys : HMDelete(key) /\ UNCHANGED hmOthers

SpecHM == HMInit /\ [][HMNext]_vars

\* OpenAddressingHashTable, for every capacity and every hash function
OAInit ==
    /\ \E capacity \in OACapacities, h \in [OAKeys -> OAHashes] :
           OANew(capacity, h)
    /\ BSTNew /\ RBNew /\ HMIdle /\ SLNew

OANext ==
    \/ \E key \in OAKeys, value \in OAValues :
           /\ OAInsertProbesInBounds(key, OAMaxProbes)
           /\ OAInsert(key, value) /\ UNCHANGED oaOthers
    \/ \E key \in OAKeys :
           /\ OAGetProbesInBounds(key, OAMaxProbes)
           /\ OAGet(key) /\ UNCHANGED oaOthers
    \/ \E key \in OAKeys : OADelete(key) /\ UNCHANGED oaOthers

SpecOA == OAInit /\ [][OANext]_vars

\* SkipList, for every level random_level may return
SLInit == SLNew /\ BSTNew /\ RBNew /\ HMIdle /\ OAIdle

SLNext ==
    \/ \E key \in SLKeys, value \in SLValues, new_level \in SLLevels :
           SLInsert(key, value, new_level) /\ UNCHANGED slOthers
    \/ \E key \in SLKeys : SLSearch(key) /\ UNCHANGED slOthers
    \/ \E key \in SLKeys : SLDelete(key) /\ UNCHANGED slOthers

SpecSL == SLInit /\ [][SLNext]_vars

\* A run on one of HashMap, BinarySearchTree and SkipList: a container is
\* used only while the other two are as constructed.
UpdInit == HMInit

UpdNext ==
    \/ \E key \in HMKeys, value \in HMValues :
           /\ BSTNew /\ SLNew
           /\ HMInsertInBounds(key) /\ HMInsert(key, value) /\ UNCHANGED hmOthers
    \/ \E key \in HMKeys :
           BSTNew /\ SLNew /\ HMDelete(key) /\ UNCHANGED hmOthers
    \/ \E key \in UpdBSTKeys, value \in BSTValues :
           /\ HMIdle /\ SLNew
           /\ BSTInsertInBounds(key) /\ BSTInsert(key, value) /\ UNCHANGED bstOthers
    \/ \E key \in UpdBSTKeys :
           HMIdle /\ SLNew /\ BSTDelete(key) /\ UNCHANGED bstOthers
    \/ \E key \in SLKeys, value \in SLValues, new_level \in SLLevels :
           /\ HMIdle /\ BSTNew
           /\ SLInsert(key, value, new_level) /\ UNCHANGED slOthers
    \/ \E key \in SLKeys :
           HMIdle /\ BSTNew /\ SLDelete(key) /\ UNCHANGED slOthers

SpecUpdate == UpdInit /\ [][UpdNext]_vars

---------------------------------------------------------------------------
(* Observations of a BinarySearchTree used by the properties. *)

\* the keys met by an in-order walk (left, node, right)
RECURSIVE BSTInOrder(_)
BSTInOrder(node) ==
    IF IsNone(node) THEN <<>>
    ELSE LET n == Unwrap(node) IN
         BSTInOrder(n.left) \o <<n.key>> \o BSTInOrder(n.right)

\* the number of nodes of a tree
BSTCount(node) == Len(BSTInOrder(node))

StrictlyAscending(s) == \A i \in 1..(Len(s) - 1) : s[i] < s[i + 1]

NoDuplicates(s) == \A i, j \in 1..Len(s) : i # j => s[i] # s[j]

---------------------------------------------------------------------------
(* Properties of BinarySearchTree, checked under SpecBST. *)

\* C1: every delete(k) of a retrievable key k returns true, leaves get(k)
\* None, and leaves every other retrievable key retrievable with the same
\* value.
C1_BSTDeleteRemovesOnlyKey ==
    [][\A k \in BSTKeys :
          (BSTDelete(k) /\ IsSome(BSTSearchRecursive(bst_root, k)))
          => /\ BSTDeleteRet(k) = TRUE
             /\ IsNone(BSTSearchRecursive(bst_root', k))
             /\ \A j \in BSTKeys \ {k} :
                   IsSome(BSTSearchRecursive(bst_root, j))
                   => BSTSearchRecursive(bst_root', j)
                        = BSTSearchRecursive(bst_root, j)]_vars

\* C8: in every reachable state the in-order traversal of the keys is
\* strictly ascending.
C8_BSTInOrderAscending == StrictlyAscending(BSTInOrder(bst_root))

\* C9: in every reachable state len() equals the number of nodes of the tree.
C9_BSTLenIsNodeCount == BSTLen = BSTCount(bst_root)

\* C10: in every reachable state no two nodes of the tree hold the same key.
C10_BSTNoDuplicateKeys == NoDuplicates(BSTInOrder(bst_root))

---------------------------------------------------------------------------
(* Properties of RedBlackTree. *)

\* a step on which delete(k) returns: at once, or when its loop is left
RBDeleteReturns(k) ==
    /\ rb_pc' = "idle"
    /\ \/ RBDelete(k)
       \/ RBDeleteLoop /\ Unwrap(rb_del).key = k

\* C2: every delete(k) of a present key returns Some(its value), leaves
\* get(k) None and leaves every other retrievable key retrievable with the
\* same value.
C2_RBDeleteRemovesOnlyKey ==
    [][\A k \in RBKeys :
          (RBDeleteReturns(k) /\ IsSome(RBGetRet(k)))
          => /\ RBDeleteRet(k) = RBGetRet(k)
             /\ IsNone(RBGetRecursive(rb_root', k))
             /\ \A j \in RBKeys \ {k} :
                   IsSome(RBGetRet(j))
                   => RBGetRecursive(rb_root', j) = RBGetRet(j)]_vars

\* the colors of the nodes of a tree other than its root
RECURSIVE RBColors(_)
RBColors(node) ==
    IF IsNone(node) THEN {}
    ELSE {Unwrap(node).color} \cup RBColors(Unwrap(node).left)
                              \cup RBColors(Unwrap(node).right)

\* C7: in an insert-only workload get(k) returns the value of the latest
\* insert of k, and None for a key that was never inserted.
C7_RBInsertOnlyRetrievable ==
    \A k \in RBInsKeys : RBGetRet(k) = MapGet(rb_model, k)

\* all the keys are in, under both values, and rebalancing has acted: the
\* tree is lower than a chain and a node below the root has been recolored
C7_Witness ==
    /\ rb_size = RBInsMaxKey
    /\ rb_tree_height < rb_size - 1
    /\ \E k \in RBInsKeys : RBGetRet(k) = Some(1)
    /\ \E k \in RBInsKeys : RBGetRet(k) = Some(2)
    /\ Black \in RBColors(Unwrap(rb_root).left)
                 \cup RBColors(Unwrap(rb_root).right)

\* the number of nodes on the left spine below a node
RECURSIVE RBLeftSpine(_)
RBLeftSpine(node) ==
    IF IsNone(node.left) THEN 0 ELSE 1 + RBLeftSpine(Unwrap(node.left))

\* C3: delete terminates: the loop that looks for the minimum of the right
\* subtree steps down the left spine of `current`, so it is over after at
\* most as many iterations as that spine has nodes.
C3_RBDeleteLoopTerminates ==
    rb_pc = "delete_loop"
    => Unwrap(rb_del).iter <= RBLeftSpine(Unwrap(rb_del).current)

---------------------------------------------------------------------------
(* Properties of HashMap, checked under SpecHM. *)

\* C4: whatever the hash function, after any sequence of inserts and deletes
\* get(k) returns Some(v) for the latest insert(k, v) not followed by a
\* delete(k) and None otherwise, delete(k) returns true exactly when k is
\* present, len() is the number of present keys and is_empty() holds exactly
\* when that number is 0.
C4_HMRefinesMap ==
    /\ \A k \in HMKeys :
          /\ HMGetRet(k) = MapGet(hm_model, k)
          /\ HMDeleteRet(k) = (k \in DOMAIN hm_model)
    /\ HMLen = Cardinality(DOMAIN hm_model)
    /\ HMIsEmpty = (Cardinality(DOMAIN hm_model) = 0)

\* after at least one delete of a present key, two keys with different hashes
\* share a bucket and hold different values
C4_Witness ==
    \E b \in DOMAIN hm_buckets :
        /\ Len(hm_buckets[b]) >= 2
        /\ hm_buckets[b][1][2] # hm_buckets[b][2][2]
        /\ hm_total_insertions > hm_size
        /\ HMHashKey(hm_buckets[b][1][1]) # HMHashKey(hm_buckets[b][2][1])


---------------------------------------------------------------------------
(* Properties of OpenAddressingHashTable, checked under SpecOA. *)

\* get and delete agree with the abstract map
OAAgreesWithMap ==
    \A k \in OAKeys :
        /\ ~OAGetPanics(k) /\ OAGetRet(k) = MapGet(oa_model, k)
        /\ ~OADeletePanics(k) /\ OADeleteRet(k) = MapGet(oa_model, k)

\* C5: in every run in which no insert fails fatally, whatever the hash
\* function, get(k) returns the value of the latest insert of k not followed
\* by a delete(k) and None otherwise, and delete(k) returns that value or
\* None.
C5_OARefinesMap == oa_panic # "insert" => (oa_panic = "none" /\ OAAgreesWithMap)

\* The same for the tables of capacity 1 or more.
OARefinesMapPositiveCapacity ==
    (oa_capacity >= 1 /\ oa_panic = "none") => OAAgreesWithMap

\* a key was deleted and inserted again with another value: its tombstone
\* comes first on the probe sequence, then a live entry of another key, then
\* its live entry
OATombstoneBeforeLive ==
    /\ oa_capacity >= 3 /\ oa_panic = "none"
    /\ \E k \in OAKeys :
          /\ OABucketIndex(OAHashKey(k), oa_capacity) = 0
          /\ IsSome(oa_table[0]) /\ Unwrap(oa_table[0]).key = k
          /\ Unwrap(oa_table[0]).tombstone
          /\ IsSome(oa_table[1]) /\ Unwrap(oa_table[1]).key # k
          /\ ~Unwrap(oa_table[1]).tombstone
          /\ OALive(oa_table[2], k)
          /\ Unwrap(oa_table[2]).value # Unwrap(oa_table[0]).value


---------------------------------------------------------------------------
(* Properties of SkipList, checked under SpecSL. *)

\* C6: for every outcome of the random level choices, after any sequence of
\* inserts and deletes search(k) returns the value of the latest insert of k
\* not followed by a delete(k) and None otherwise, delete(k) returns
\* Some(that value) or None, and len() is the number of present keys.
C6_SLRefinesMap ==
    /\ \A k \in SLKeys :
          /\ SLSearchRet(k) = MapGet(sl_model, k)
          /\ SLDeleteRet(k) = MapGet(sl_model, k)
    /\ SLLen = Cardinality(DOMAIN sl_model)

\* a node of level MAX_LEVEL was deleted in front of a node of level 0, which
\* is still found; the address of the deleted node is free again and the
\* list keeps the level MAX_LEVEL
C6_Witness ==
    /\ DOMAIN sl_nodes = {SLHead, 2}
    /\ sl_level = MAX_LEVEL
    /\ sl_insertion_cost = 0
    /\ sl_nodes[2].level = 0
    /\ sl_size = 1
    /\ SLSearchRet(sl_nodes[2].key) = Some(sl_nodes[2].value)

---------------------------------------------------------------------------
(* Further properties of RedBlackTree. *)

\* C11: after every public operation of the RedBlackTree returns, insert and
\* delete alike, the root of a non-empty tree is Black.
C11_RBRootBlack ==
    (rb_pc = "idle" /\ IsSome(rb_root)) => Unwrap(rb_root).color = Black

---------------------------------------------------------------------------
(* Further properties of OpenAddressingHashTable, checked under SpecOA. *)

\* the slots of the table
OASlots == 0..(oa_capacity - 1)

\* some slot holds key in an entry that is not a tombstone
OAKeyIsLive(key) ==
    \E i \in OASlots :
        /\ IsSome(oa_table[i])
        /\ Unwrap(oa_table[i]).key = key
        /\ ~Unwrap(oa_table[i]).tombstone

OAHasEmptySlot == \E i \in OASlots : IsNone(oa_table[i])

\* C12: in a table of capacity 1 or more, insert(k, v) fails fatally exactly
\* when k is not live and no slot is Empty; it succeeds whenever a slot is
\* Empty or k is live.
C12_OAInsertFailsIffFull ==
    oa_capacity >= 1 =>
        \A k \in OAKeys :
            OAInsertPanics(k) <=> (~OAKeyIsLive(k) /\ ~OAHasEmptySlot)

\* an insert has failed in a table of two or more slots that holds a
\* tombstone and a live entry of the other key
C12_Witness ==
    /\ oa_panic = "insert"
    /\ oa_capacity >= 2
    /\ oa_size >= 1
    /\ \E i \in OASlots : IsSome(oa_table[i]) /\ Unwrap(oa_table[i]).tombstone

OAAbsentReturnsNone ==
    \A k \in OAKeys :
        ~OAKeyIsLive(k) =>
            /\ ~OAGetPanics(k) /\ OAGetRet(k) = None
            /\ ~OADeletePanics(k) /\ OADeleteRet(k) = None

\* C14: get(k) and delete(k) of a key that is not live terminate and return
\* None, also when no slot is Empty; neither ever fails fatally.
C14_OAAbsentReturnsNone == oa_panic = "none" => OAAbsentReturnsNone

\* The same for the tables of capacity 1 or more.
OAAbsentReturnsNonePositiveCapacity ==
    (oa_capacity >= 1 /\ oa_panic = "none") => OAAbsentReturnsNone

\* no slot is Empty and some key is not live
OAFullWithAbsentKey ==
    /\ oa_capacity >= 2 /\ oa_panic = "none"
    /\ ~OAHasEmptySlot
    /\ \E k \in OAKeys : ~OAKeyIsLive(k)

---------------------------------------------------------------------------
(* Properties of the five containers together. *)

\* delete of a key get does not find, in each container: the value returned
\* says "not found" and the retrievable keys, their values and the size stay
BSTDeleteAbsentIsNoOp ==
    \A k \in BSTKeys :
        (BSTDelete(k) /\ IsNone(BSTGetRet(k))) =>
            /\ BSTDeleteRet(k) = FALSE
            /\ \A j \in BSTKeys : BSTGetRet(j)' = BSTGetRet(j)
            /\ BSTLen' = BSTLen

RBDeleteAbsentIsNoOp ==
    \A k \in RBKeys :
        (RBDelete(k) /\ IsNone(RBGetRet(k))) =>
            /\ rb_pc' = "idle"
            /\ RBDeleteRet(k) = None
            /\ \A j \in RBKeys : RBGetRet(j)' = RBGetRet(j)
            /\ rb_size' = rb_size

HMDeleteAbsentIsNoOp ==
    \A k \in HMKeys :
        (HMDelete(k) /\ IsNone(HMGetRet(k))) =>
            /\ HMDeleteRet(k) = FALSE
            /\ \A j \in HMKeys : HMGetRet(j)' = HMGetRet(j)
            /\ HMLen' = HMLen

OADeleteAbsentIsNoOp ==
    \A k \in OAKeys :
        (OADelete(k) /\ ~OAKeyIsLive(k)) =>
            /\ oa_panic' = "none"
            /\ OADeleteRet(k) = None
            /\ \A j \in OAKeys : OAGetRet(j)' = OAGetRet(j)
            /\ oa_size' = oa_size

SLDeleteAbsentIsNoOp ==
    \A k \in SLKeys :
        (SLDelete(k) /\ IsNone(SLSearchRet(k))) =>
            /\ SLDeleteRet(k) = None
            /\ \A j \in SLKeys : SLSearchRet(j)' = SLSearchRet(j)
            /\ SLLen' = SLLen

\* C15: in each of the five containers, from any reachable state, delete of
\* a key that is not present returns None (false for HashMap and
\* BinarySearchTree), never signals an error, and leaves the retrievable
\* keys, their values and the size unchanged.
C15_DeleteAbsentIsNoOp ==
    [][/\ BSTDeleteAbsentIsNoOp
       /\ RBDeleteAbsentIsNoOp
       /\ HMDeleteAbsentIsNoOp
       /\ OADeleteAbsentIsNoOp
       /\ SLDeleteAbsentIsNoOp]_vars

\* The five parts, each under the specification of its container; for the
\* OpenAddressingHashTable, on the tables of capacity 1 or more.
BSTDeleteAbsentHolds == [][BSTDeleteAbsentIsNoOp]_vars
RBDeleteAbsentHolds == [][RBDeleteAbsentIsNoOp]_vars
HMDeleteAbsentHolds == [][HMDeleteAbsentIsNoOp]_vars
OADeleteAbsentHoldsPositiveCapacity ==
    [][oa_capacity >= 1 => OADeleteAbsentIsNoOp]_vars
SLDeleteAbsentHolds == [][SLDeleteAbsentIsNoOp]_vars

\* insert of a key get finds, in HashMap, BinarySearchTree and SkipList:
\* len() stays, get of the key returns the new value, the other keys keep
\* theirs
HMUpdateKeepsSize ==
    \A k \in HMKeys, v \in HMValues :
        IsSome(HMGetRet(k)) =>
            \A r \in {HMInsertResult(k, v)} :
                /\ r.size = HMLen
                /\ HMGetIn(r.buckets, k) = Some(v)
                /\ \A j \in HMKeys \ {k} : HMGetIn(r.buckets, j) = HMGetRet(j)

BSTUpdateKeepsSize ==
    \A k \in UpdBSTKeys, v \in BSTValues :
        IsSome(BSTGetRet(k)) =>
            \A r \in {BSTInsertResult(k, v)} :
                /\ r.size = BSTLen
                /\ BSTSearchRecursive(r.root, k) = Some(v)
                /\ \A j \in UpdBSTKeys \ {k} :
                       BSTSearchRecursive(r.root, j) = BSTGetRet(j)

SLUpdateKeepsSize ==
    \A k \in SLKeys, v \in SLValues, new_level \in SLLevels :
        IsSome(SLSearchRet(k)) =>
            \A r \in {SLInsertResult(k, v, new_level)} :
                /\ r.size = SLLen
                /\ SLSearchIn(r.nodes, r.level, k) = Some(v)
                /\ \A j \in SLKeys \ {k} :
                       SLSearchIn(r.nodes, r.level, j) = SLSearchRet(j)

\* C16: in HashMap, BinarySearchTree and SkipList, from any reachable state,
\* insert(k, v2) of a key for which get(k) returns Some leaves len()
\* unchanged, makes get(k) return Some(v2) and changes the value of no other
\* key.
C16_UpdatePreservesSize ==
    HMUpdateKeepsSize /\ BSTUpdateKeepsSize /\ SLUpdateKeepsSize

\* an insert of an existing key with the random level MAX_LEVEL has raised
\* the level of a SkipList of two keys and returned before the metrics were
\* refreshed
C16_Witness ==
    /\ sl_size = 2
    /\ sl_level = MAX_LEVEL
    /\ sl_max_level < sl_level
    /\ \E k \in SLKeys : SLSearchRet(k) = Some(2)


\* the keys met by an in-order walk of a red-black tree (left, node, right)
RECURSIVE RBInOrder(_)
RBInOrder(node) ==
    IF IsNone(node) THEN <<>>
    ELSE LET n == Unwrap(node) IN
         RBInOrder(n.left) \o <<n.key>> \o RBInOrder(n.right)

\* C17: after every public operation of a RedBlackTree, whatever inserts and
\* deletes came before, the keys of an in-order traversal are strictly
\* ascending.
C17_RBInOrderAscending ==
    rb_pc = "idle" => StrictlyAscending(RBInOrder(rb_root))

\* a tree of at least three nodes, with both subtrees under its root, that
\* rotations have rebalanced and a delete has left with a red root
C17_Witness ==
    /\ rb_pc = "idle"
    /\ IsSome(rb_root)
    /\ Unwrap(rb_root).color = Red
    /\ IsSome(Unwrap(rb_root).left)
    /\ IsSome(Unwrap(rb_root).right)
    /\ Len(RBInOrder(rb_root)) >= 3


---------------------------------------------------------------------------
(* The chains of a SkipList. *)

\* the addresses met from `node` on along the forward pointers of level lv;
\* a node without that level ends the walk, and so does the fuel, which
\* bounds the walk of a chain that runs in a circle
RECURSIVE SLChainFrom(_, _, _, _)
SLChainFrom(nodes, node, lv, fuel) ==
    IF fuel = 0 \/ lv + 1 > Len(nodes[node].forward)
           \/ IsNone(SLForward(nodes, node, lv))
    THEN <<>>
    ELSE LET next == Unwrap(SLForward(nodes, node, lv))
         IN  <<next>> \o SLChainFrom(nodes, next, lv, fuel - 1)

\* the level-lv chain from the head
SLChain(nodes, lv) == SLChainFrom(nodes, SLHead, lv, Cardinality(DOMAIN nodes))

\* the keys of the nodes of a chain
SLChainKeys(nodes, lv) ==
    LET chain == SLChain(nodes, lv)
    IN  [i \in 1..Len(chain) |-> nodes[chain[i]].key]

\* C18: the level-0 chain from the head contains exactly the present keys,
\* each once, in strictly ascending order.
C18_SLLevelZeroChain ==
    LET keys == SLChainKeys(sl_nodes, 0)
    IN  /\ StrictlyAscending(keys)
        /\ {keys[i] : i \in 1..Len(keys)} = DOMAIN sl_model
        /\ {keys[i] : i \in 1..Len(keys)} =
               {k \in SLKeys : IsSome(SLSearchRet(k))}
        /\ Len(keys) = SLLen

\* two nodes on the level-0 chain, the smaller key inserted after the larger
\* one (it has the higher address) and linked in front of it, in a list whose
\* level no node has any more
C18_Witness ==
    /\ DOMAIN sl_nodes = {SLHead, 1, 2}
    /\ SLChain(sl_nodes, 0) = <<2, 1>>
    /\ sl_level = MAX_LEVEL
    /\ sl_nodes[1].level < MAX_LEVEL
    /\ sl_nodes[2].level < MAX_LEVEL


\* the subsequence of the level-0 chain made of the nodes of level lv or more
SLZeroChainAtLeast(nodes, lv) ==
    SelectSeq(SLChain(nodes, 0), LAMBDA n : nodes[n].level >= lv)

\* every chain of a level of the list is the level-0 chain restricted to the
\* nodes that have this level
SLChainsAreSubsequences ==
    \A j \in 0..sl_level : SLChain(sl_nodes, j) = SLZeroChainAtLeast(sl_nodes, j)

\* after a delete that removes a node, no chain of any level reaches it
SLDeleteUnlinksEverywhere ==
    \A k \in SLKeys :
        (IsSome(SLDeleteNode(k)) /\ SLDelete(k)) =>
            \A j \in 0..MAX_LEVEL :
                \A i \in 1..Len(SLChain(sl_nodes', j)) :
                    SLChain(sl_nodes', j)[i] # Unwrap(SLDeleteNode(k))

\* C19: for every level j in 0..list level, the level-j chain from the head
\* is the subsequence of the level-0 chain made of the nodes of level j or
\* more; after a delete no chain of any level reaches the removed node.
C19_SLChainsConsistent ==
    /\ []SLChainsAreSubsequences
    /\ [][SLDeleteUnlinksEverywhere]_vars

\* a node of level MAX_LEVEL between the head and a node of level 1 that was
\* inserted before it: the chains of the levels 0 and 1 hold both nodes, the
\* chains above hold the first only
C19_Witness ==
    /\ DOMAIN sl_nodes = {SLHead, 1, 2}
    /\ SLChain(sl_nodes, 0) = <<2, 1>>
    /\ sl_nodes[2].level = MAX_LEVEL
    /\ sl_nodes[1].level = 1
    /\ SLChain(sl_nodes, 1) = <<2, 1>>
    /\ SLChain(sl_nodes, MAX_LEVEL) = <<2>>


\* the highest level of a node of the list, 0 for the empty list
SLMaxNodeLevel ==
    LET levels == {sl_nodes[n].level : n \in DOMAIN sl_nodes \ {SLHead}}
    IN  IF levels = {} THEN 0
        ELSE CHOOSE l \in levels : \A m \in levels : m <= l

\* C20: in every reachable state the running level of the list is the highest
\* level of a live node, and 0 for the empty list, after inserts of new keys,
\* inserts of existing keys and deletes.
C20_SLLevelIsMaxNodeLevel == sl_level = SLMaxNodeLevel

\* the running level is never below the level of a live node
SLLevelBoundsNodeLevels == sl_level >= SLMaxNodeLevel

\* the running level never goes down, and goes up to the level drawn by an
\* insert, whether the insert links a node or updates one
SLLevelOnlyRises ==
    [][/\ sl_level' >= sl_level
       /\ \A k \in SLKeys, v \in SLValues, new_level \in SLLevels :
              SLInsert(k, v, new_level) =>
                  sl_level' = IF new_level > sl_level THEN new_level
                              ELSE sl_level]_vars


---------------------------------------------------------------------------
(* The metrics of a SkipList. *)

\* C21: after every insert or delete returns, the metric max_level equals
\* the level field of the list, also after an insert that only updates the
\* value of an existing key.
C21_SLMaxLevelIsLevel == sl_max_level = sl_level

\* the metric max_level is never above the level of the list
SLMaxLevelAtMostLevel == sl_max_level <= sl_level

\* the steps that run update_metrics, the insert that links a node and the
\* delete that removes one, leave max_level equal to the level
SLMaxLevelRefreshed ==
    [][\A k \in SLKeys :
          \/ IsNone(SLSearchRet(k)) /\ sl_size' = sl_size + 1
          \/ IsSome(SLDeleteNode(k)) /\ sl_size' = sl_size - 1
          => sl_max_level' = sl_level']_vars


---------------------------------------------------------------------------
(* Metrics of RedBlackTree. *)

\* C22: inserting the 50 keys key0000..key0049 in ascending order into an
\* empty tree ends with tree_height < 15.
C22_RBSequentialHeight ==
    rb_size = RBSeqCount => rb_tree_height < RBSeqHeightLimit

\* all the keys of the test are in, from key 0 on, and the metric is the
\* height of the tree
C22_Witness ==
    /\ rb_size = RBSeqCount
    /\ RBInOrder(rb_root) = [i \in 1..RBSeqCount |-> i - 1]
    /\ rb_tree_height = RBHeight(rb_root)
    /\ rb_tree_height > 1


\* C23: an insert raises rebalance_count by exactly 1 if some call of
\* fix_insert on its return path rotated or recolored, and leaves it
\* unchanged otherwise; never by more than 1.
C23_RBInsertCountsOnce ==
    rb_pc = "idle" =>
        \A k \in RBCountKeys :
            RBInsertResult(k, 1).rebalance_count =
                IF RBInsertFixes(rb_root, k, 1) >= 1
                THEN rb_rebalance_count + 1
                ELSE rb_rebalance_count

\* inserts have been counted, and the tree is one in which a further insert
\* makes fix_insert rebalance at two nodes of its return path
C23_Witness ==
    /\ rb_pc = "idle"
    /\ rb_rebalance_count >= 1
    /\ \E k \in RBCountKeys :
          /\ RBInsertFixes(rb_root, k, 1) >= 2
          /\ RBInsertResult(k, 1).rebalance_count = rb_rebalance_count + 1

\* an insert that finds nothing to rebalance
RBInsertWithoutRebalance ==
    /\ rb_pc = "idle"
    /\ rb_size >= 2
    /\ \E k \in RBCountKeys :
          /\ RBInsertFixes(rb_root, k, 1) = 0
          /\ IsNone(RBGetRet(k))


\* a step of a delete call: its start, or a step of its loop
RBDeleteStep == (\E k \in RBCountKeys : RBDelete(k)) \/ RBDeleteLoop

\* the color of the node that holds key, None if there is none
RECURSIVE RBColorOf(_, _)
RBColorOf(node, key) ==
    IF IsNone(node) THEN None
    ELSE LET n == Unwrap(node) IN
         IF key = n.key THEN Some(n.color)
         ELSE IF key < n.key THEN RBColorOf(n.left, key)
         ELSE RBColorOf(n.right, key)

\* C24: delete performs no rebalancing: no rotation, no recoloring, and it
\* leaves rebalance_count unchanged whether or not the key was present.
C24_RBDeleteNoRebalance ==
    [][RBDeleteStep =>
          /\ rb_rebalance_count' = rb_rebalance_count
          /\ \A j \in RBCountKeys :
                IsSome(RBColorOf(rb_root', j))
                    => RBColorOf(rb_root', j) = RBColorOf(rb_root, j)]_vars

\* delete recolors no node that stays in the tree
RBDeleteKeepsColors ==
    [][RBDeleteStep =>
          \A j \in RBCountKeys :
              IsSome(RBColorOf(rb_root', j))
                  => RBColorOf(rb_root', j) = RBColorOf(rb_root, j)]_vars

\* delete of a key that get does not find leaves rebalance_count, and a
\* delete that returns Some raises it by 1
RBDeleteCounts ==
    [][\A k \in RBCountKeys :
          (rb_pc = "idle" /\ RBDelete(k) /\ rb_pc' = "idle") =>
              rb_rebalance_count' =
                  IF IsSome(RBDeleteRet(k)) THEN rb_rebalance_count + 1
                  ELSE rb_rebalance_count]_vars


\* C25: in every reachable state, the freshly constructed tree included,
\* balance_ratio is 1.0 when the tree is non-empty and 0.0 when it is empty.
C25_RBBalanceRatio ==
    rb_pc = "idle" => rb_balance_ratio = IF IsNone(rb_root) THEN 0 ELSE 1

\* every call that changes the tree or the size leaves balance_ratio 0.0 if
\* size is 0 and 1.0 otherwise
RBBalanceRatioRefreshed ==
    [][(rb_pc' = "idle" /\ (rb_root' # rb_root \/ rb_size' # rb_size)) =>
          rb_balance_ratio' = IF rb_size' = 0 THEN 0 ELSE 1]_vars

\* balance_ratio is 0.0 only when size is 0, and a tree with nodes has 1.0
RBBalanceRatioOfTree ==
    /\ rb_balance_ratio = 0 => rb_size = 0
    /\ IsSome(rb_root) => rb_balance_ratio = 1


---------------------------------------------------------------------------
(* Metrics of HashMap. *)

hmMetrics == <<hm_total_insertions, hm_total_collisions, hm_max_chain_length,
               hm_average_load_factor>>

C28_HMLoadFactorIsLen ==
    hm_average_load_factor = Ratio(HMLen, BUCKET_COUNT)

\* what the code keeps: average_load_factor is the len() / BUCKET_COUNT of
\* the last insert of a new key, so never below the current one's numerator
\* by a delete
HMLoadFactorOfLastInsert ==
    [][\A k \in HMKeys, v \in HMValues :
          (hm_model' = MapPut(hm_model, k, v) /\ HMInsert(k, v)
             /\ IsNone(HMGetRet(k))) =>
              hm_average_load_factor' = Ratio(HMLen', BUCKET_COUNT)]_vars


---------------------------------------------------------------------------
(* Metrics of OpenAddressingHashTable. *)

\* the slots holding a live entry, and those holding a tombstone
OALiveSlots ==
    {i \in OASlots : IsSome(oa_table[i]) /\ ~Unwrap(oa_table[i]).tombstone}
OATombstoneSlots ==
    {i \in OASlots : IsSome(oa_table[i]) /\ Unwrap(oa_table[i]).tombstone}
OANonEmptySlots == {i \in OASlots : IsSome(oa_table[i])}

\* C29: in every state of a table that has slots, load_factor is the number
\* of slots holding a live entry divided by capacity; since it holds in every
\* state, no insert, update, get or delete leaves it stale.
C29_OALoadFactorIsLive ==
    oa_capacity >= 1 =>
        oa_load_factor = Ratio(Cardinality(OALiveSlots), oa_capacity)

\* a full table of three slots: a tombstone and two live entries, one of
\* them the key of the tombstone inserted again
C29_Witness ==
    /\ oa_capacity = 3
    /\ Cardinality(OATombstoneSlots) = 1
    /\ Cardinality(OALiveSlots) = 2
    /\ oa_load_factor = Ratio(2, 3)

\* a step of a delete call that returns Some
OADeleteReturnsSome ==
    \E k \in OAKeys :
        ~OADeletePanics(k) /\ IsSome(OADeleteRet(k)) /\ OADelete(k)

\* tombstone_count is the number of slots holding a tombstone, and size plus
\* tombstone_count the number of non-Empty slots
OATombstonesCounted ==
    /\ oa_tombstone_count = Cardinality(OATombstoneSlots)
    /\ oa_size = Cardinality(OALiveSlots)
    /\ oa_size + oa_tombstone_count = Cardinality(OANonEmptySlots)

\* C30: tombstone_count starts at 0 and rises by 1 in exactly the delete
\* calls that return Some, so it is their number; it is also the number of
\* slots holding a tombstone, and size + tombstone_count is the number of
\* non-Empty slots.
C30_OATombstoneCount ==
    /\ []OATombstonesCounted
    /\ [][oa_tombstone_count' =
              IF OADeleteReturnsSome THEN oa_tombstone_count + 1
              ELSE oa_tombstone_count]_vars

\* two deletes have returned Some and one entry is live, in a full table
C30_Witness ==
    /\ oa_capacity = 3
    /\ oa_tombstone_count = 2
    /\ oa_size = 1
    /\ Cardinality(OATombstoneSlots) = 2


\* when insert(key) returns, max_probe_length is the larger of its old value
\* and the number of slots the call stepped past
OAInsertRecordsLongest ==
    /\ oa_max_probe_length >= 0
    /\ (oa_capacity >= 1 /\ oa_panic = "none") =>
           \A k \in OAKeys :
               ~OAInsertPanics(k) =>
                   OAInsertMaxProbe(k) =
                       Max(oa_max_probe_length, OAInsertProbeOf(k).probe_count)

\* C31: max_probe_length starts at 0; every insert call that returns, of a
\* new key or of a key already live, leaves it at the larger of its old value
\* and the number of slots the call stepped past; and it changes in no step
\* but one that installs a new entry.  So it is the largest number of probe
\* steps of any completed insert.
C31_OAMaxProbeLength ==
    /\ []OAInsertRecordsLongest
    /\ [][oa_max_probe_length' # oa_max_probe_length =>
              \E k \in OAKeys :
                  /\ OAInsertProbeOf(k).kind = "empty"
                  /\ oa_size' = oa_size + 1
                  /\ oa_max_probe_length' = OAInsertMaxProbe(k)]_vars

\* the longest probe so far took two steps, and an insert of a live key
\* would step past two slots again to update it
C31_Witness ==
    /\ oa_capacity >= 1
    /\ oa_panic = "none"
    /\ oa_max_probe_length = 2
    /\ \E k \in OAKeys :
           /\ OAInsertProbeOf(k).kind = "update"
           /\ OAInsertProbeOf(k).probe_count = 2


\* C32: every insert call and every get call that returns adds to
\* total_probes the number of probe steps it took, so that total_probes is
\* their sum.
C32_OATotalProbesIsSum ==
    (oa_capacity >= 1 /\ oa_panic = "none") =>
        \A k \in OAKeys :
            /\ ~OAInsertPanics(k) =>
                   OAInsertTotalProbes(k) =
                       oa_total_probes + OAInsertProbeOf(k).probe_count
            /\ OAGetTotalProbes(k) =
                   oa_total_probes + OAGetProbeOf(k).probe_count

\* what the code keeps: a get that stops at an Empty slot or at its key adds
\* its probe steps, and one that gives up after more than capacity steps
\* adds nothing
OAGetRecordsUnlessGivingUp ==
    (oa_capacity >= 1 /\ oa_panic = "none") =>
        \A k \in OAKeys :
            OAGetTotalProbes(k) =
                IF OAGetProbeOf(k).probe_count > oa_capacity
                THEN oa_total_probes
                ELSE oa_total_probes + OAGetProbeOf(k).probe_count

\* a delete leaves total_probes
OADeleteKeepsTotalProbes ==
    [][\A k \in OAKeys : OADelete(k) => oa_total_probes' = oa_total_probes]_vars


---------------------------------------------------------------------------
(* Metrics of BinarySearchTree. *)

\* the depth, root = 0, of the node the search path of key ends at
RECURSIVE BSTDepthOf(_, _, _)
BSTDepthOf(node, key, depth) ==
    IF IsNone(node) THEN -1
    ELSE IF key < Unwrap(node).key
    THEN BSTDepthOf(Unwrap(node).left, key, depth + 1)
    ELSE IF key > Unwrap(node).key
    THEN BSTDepthOf(Unwrap(node).right, key, depth + 1)
    ELSE depth

\* an insert that installs a node leaves max_depth at the larger of its old
\* value and the depth of that node; an insert that updates a key leaves it
BSTInsertRecordsDepth ==
    /\ bst_max_depth >= 0
    /\ \A k \in BSTKeys, v \in BSTDepthValues :
           \A r \in {BSTInsertResult(k, v)} :
               r.max_depth =
                   IF IsNone(BSTGetRet(k))
                   THEN Max(bst_max_depth, BSTDepthOf(r.root, k, 0))
                   ELSE bst_max_depth

\* C33: max_depth starts at 0 and never decreases; it changes in no step but
\* an insert that installs a node, so not in a get, a delete or an update
\* insert; and after an insert that installs a node it is the larger of its
\* old value and the depth of the new node.  So after every insert it is the
\* largest depth at which a node has ever been installed.
C33_BSTMaxDepth ==
    /\ []BSTInsertRecordsDepth
    /\ [][/\ bst_max_depth' >= bst_max_depth
          /\ bst_max_depth' # bst_max_depth =>
                \E k \in BSTKeys, v \in BSTDepthValues :
                    /\ IsNone(BSTGetRet(k))
                    /\ bst_root' = BSTInsertResult(k, v).root
                    /\ bst_size' = bst_size + 1]_vars

\* a chain of four nodes was built and three of them deleted: max_depth is
\* still 3
C33_Witness ==
    /\ bst_max_depth = 3
    /\ bst_size = 1


---------------------------------------------------------------------------
(* Rebalancing of RedBlackTree. *)

\* the left subtree of node is more than 1 taller than the right one, and
\* the other way round
RBLeftHeavy(node) == RBHeight(node.left) > RBHeight(node.right) + 1
RBRightHeavy(node) == RBHeight(node.right) > RBHeight(node.left) + 1

\* the single rotations with their coloring: the new root of the subtree
\* Black, the node that went down Red
RBSingleRight(node) ==
    LET rotated == RBRotateRight(node)
    IN  [rotated EXCEPT !.color = Black, !.right = RBPaint(rotated.right, Red)]
RBSingleLeft(node) ==
    LET rotated == RBRotateLeft(node)
    IN  [rotated EXCEPT !.color = Black, !.left = RBPaint(rotated.left, Red)]

\* the case selection of fix_insert at one node
RBCaseSelection(node) ==
    /\ (RBLeftHeavy(node) /\ IsSome(Unwrap(node.left).left)) =>
           RBFixInsert(node).node = RBSingleRight(node)
    /\ (RBRightHeavy(node) /\ IsSome(Unwrap(node.right).right)) =>
           RBFixInsert(node).node = RBSingleLeft(node)
    /\ (RBLeftHeavy(node) /\ RBFixInsert(node).node # RBSingleRight(node)) =>
           (IsSome(Unwrap(node.left).right) /\ IsNone(Unwrap(node.left).left))
    /\ (RBRightHeavy(node) /\ RBFixInsert(node).node # RBSingleLeft(node)) =>
           (IsSome(Unwrap(node.right).left) /\ IsNone(Unwrap(node.right).right))

\* C34: at every node fix_insert is called on in an insert, a left-heavy node
\* whose left child has a left child gets a single right rotation, a
\* right-heavy node whose right child has a right child a single left
\* rotation, and a double rotation is made only when the heavy child has a
\* child on the inner side only.
C34_RBCaseSelection ==
    rb_pc = "idle" =>
        \A k \in RBDeepKeys :
            \A node \in RBFixInsertCalls(k, 1) : RBCaseSelection(node)


\* what the code does: the single rotation is made when the heavy child has a
\* child on the outer side only, the double rotation whenever it has one on
\* the inner side
RBCaseSelectionOfCode(node) ==
    /\ RBLeftHeavy(node) =>
           RBFixInsert(node).node =
               IF IsNone(Unwrap(node.left).right)
               THEN RBSingleRight(node)
               ELSE RBSingleRight(
                        [node EXCEPT !.left = Some(RBRotateLeft(Unwrap(node.left)))])
    /\ RBRightHeavy(node) =>
           RBFixInsert(node).node =
               IF IsNone(Unwrap(node.right).left)
               THEN RBSingleLeft(node)
               ELSE RBSingleLeft(
                        [node EXCEPT !.right = Some(RBRotateRight(Unwrap(node.right)))])

RBCaseSelectionOfCodeHolds ==
    rb_pc = "idle" =>
        \A k \in RBInsKeys :
            \A node \in RBFixInsertCalls(k, 1) : RBCaseSelectionOfCode(node)


\* every node of the tree has subtree heights that differ by at most 1
RECURSIVE RBBalanced(_)
RBBalanced(node) ==
    IF IsNone(node) THEN TRUE
    ELSE /\ ~RBLeftHeavy(Unwrap(node))
         /\ ~RBRightHeavy(Unwrap(node))
         /\ RBBalanced(Unwrap(node).left)
         /\ RBBalanced(Unwrap(node).right)

\* C35: after every insert of an insert-only workload, the left and right
\* subtree heights of every node of the tree differ by at most 1.
C35_RBHeightInvariant == RBBalanced(rb_root)

\* what holds of trees of up to five keys built by inserts alone
RBBalancedInsertOnly == rb_size <= 5 => RBBalanced(rb_root)


\* the states of a slot
OASlotIsEmpty(slot) == IsNone(slot)
OASlotIsOccupied(slot) == IsSome(slot) /\ ~Unwrap(slot).tombstone
OASlotIsTombstone(slot) == IsSome(slot) /\ Unwrap(slot).tombstone

OALiveSlotsOf(key) ==
    {i \in OASlots : OASlotIsOccupied(oa_table[i]) /\ Unwrap(oa_table[i]).key = key}

\* the slots linear probing visits from the start index of key up to slot i
OAProbePath(key, i) ==
    LET start == OABucketIndex(OAHashKey(key), oa_capacity)
    IN  {(start + d) % oa_capacity :
             d \in 0..((i + oa_capacity - start) % oa_capacity)}

\* C37: every key is held by at most one live entry, and no slot is Empty on
\* the way of linear probing from the start index of the key to that entry.
C37_OALiveEntryReachable ==
    \A k \in OAKeys :
        /\ Cardinality(OALiveSlotsOf(k)) <= 1
        /\ \A i \in OALiveSlotsOf(k) :
               \A j \in OAProbePath(k, i) : ~OASlotIsEmpty(oa_table[j])

\* a live entry two probe steps from its start index, the path passing a
\* tombstone and wrapping around the end of the table
C37_Witness ==
    \E k \in OAKeys :
        \E i \in OALiveSlotsOf(k) :
            /\ Cardinality(OAProbePath(k, i)) = 3
            /\ i < OABucketIndex(OAHashKey(k), oa_capacity)
            /\ \E j \in OAProbePath(k, i) : OASlotIsTombstone(oa_table[j])


\* the numbers of nodes on the paths from the root to each node, the root
\* being at depth 1
RECURSIVE RBNodeDepths(_, _)
RBNodeDepths(node, depth) ==
    IF IsNone(node) THEN {}
    ELSE {depth} \cup RBNodeDepths(Unwrap(node).left, depth + 1)
                 \cup RBNodeDepths(Unwrap(node).right, depth + 1)

\* the number of nodes on the longest path from the root to a leaf
RBLongestPath(root) ==
    IF IsNone(root) THEN 0
    ELSE CHOOSE d \in RBNodeDepths(root, 1) :
             \A other \in RBNodeDepths(root, 1) : other <= d

\* C38: whenever no call is under way, so after every insert and every
\* delete that has returned, tree_height is the number of nodes on the
\* longest path from the root to a leaf, 0 for the empty tree.
C38_RBTreeHeightIsHeight ==
    rb_pc = "idle" => rb_tree_height = RBLongestPath(rb_root)

\* inserts and deletes (four of them found their key) have left two nodes,
\* one below the other
C38_Witness ==
    /\ rb_pc = "idle"
    /\ rb_size = 2
    /\ rb_tree_height = 2
    /\ rb_rebalance_count >= 4


---------------------------------------------------------------------------
(* The level of a SkipList. *)

\* the list level is at most MAX_LEVEL and at least the level of every node
\* of the list, and no node is linked at a level above it
SLLevelCoversNodes ==
    /\ sl_level \in 0..MAX_LEVEL
    /\ \A n \in DOMAIN sl_nodes \ {SLHead} : sl_nodes[n].level <= sl_level
    /\ \A lv \in 0..MAX_LEVEL : lv > sl_level => SLChain(sl_nodes, lv) = <<>>

\* C39: whatever levels random_level draws, the list level never decreases,
\* never exceeds MAX_LEVEL and is at least the level of every live node, so
\* that no node is linked at a level a traversal from the list level skips.
C39_SLLevelMonotone ==
    /\ []SLLevelCoversNodes
    /\ [][sl_level' >= sl_level]_vars

\* the list level has gone up to MAX_LEVEL and the two nodes of the list are
\* lower: one was drawn level 1, the other level 0
C39_Witness ==
    /\ sl_level = MAX_LEVEL
    /\ sl_size = 2
    /\ {sl_nodes[n].level : n \in DOMAIN sl_nodes \ {SLHead}} = {0, 1}


\* C40: rotation_count, color_fix_count and average_depth have their initial
\* value 0 in every reachable state: no insert, get or delete changes them,
\* whatever rotations and recolorings the inserts make.
C40_RBUnwrittenMetrics ==
    /\ rb_rotation_count = 0
    /\ rb_color_fix_count = 0
    /\ rb_average_depth = 0

\* rebalance_count has been raised three times, and some insert into the
\* tree, which has three levels, would rotate or recolor again
C40_Witness ==
    /\ rb_pc = "idle"
    /\ rb_rebalance_count >= 3
    /\ rb_size >= 4
    /\ rb_tree_height = 3
    /\ \E k \in RBCountKeys : RBInsertFixes(rb_root, k, 1) >= 1

=============================================================================
